---- MODULE Spec2Model ----
(***************************************************************************)
(* Token lifecycle, request gate and rate limiter of the resume-evaluation *)
(* backend (FastAPI).  Time is counted in ticks, TicksPerSec ticks to the  *)
(* second, so that the conversions of the code between float seconds and   *)
(* whole seconds (int(...), JWT exp, Redis TTL) are visible.               *)
(*                                                                         *)
(* Spec          the HTTP pipeline: RateLimitMiddleware -> AuthMiddleware  *)
(*               -> route handler, one request in flight                   *)
(* SpecRate      check_rate_limit called directly                          *)
(* SpecSession   the refresh-token operations of both stores               *)
(* SpecBlacklist the blacklist operations of both stores                   *)
(* SpecJobs      update_job / delete_job at service, controller and route  *)
(***************************************************************************)
EXTENDS Integers, Sequences, FiniteSets, TLC

\* ---- bounds and scaled settings -------------------------------------
TicksPerSec == 2      \* clock resolution: ticks per second
MaxTime     == 4      \* the clock stops after this many ticks
Limit       == 2      \* settings.RATE_LIMIT_REQUESTS, scaled down
Window      == 1      \* settings.RATE_LIMIT_WINDOW in seconds, scaled down
AccessTtl   == 1      \* access token lifetime in seconds, scaled down
RefreshTtl  == 2      \* refresh token lifetime in seconds, scaled down
MaxTokens   == 2      \* token pairs generate_tokens may issue
MaxCalls    == 4      \* check_rate_limit calls followed per window

VARIABLES
    now,          \* wall clock, in ticks
    rl,           \* Redis key ratelimit:{identifier}: [count, expiry]
    win,          \* history: check_rate_limit calls since the key was absent
    rlCall,       \* last direct call of check_rate_limit and its result
    issued,       \* access tokens signed so far, jti = index
    blacklistDb,  \* table token_blacklist (rows keyed by jti)
    refreshDb,    \* table refresh_tokens, token = index
    loggedOut,    \* history: the jti for which POST /auth/logout returned 200
    req,          \* the request in flight
    redisBlacklist, \* Redis keys blacklist:token:{jti}
    redisRefresh,   \* Redis keys refresh:{token}
    hist,           \* history of the session-store calls
    lastCall,       \* last session-store call and its result
    jobs,           \* table jobs
    jobCall,        \* last job operation and its result
    users,          \* table users
    userCall,       \* last user-management operation and its result
    reg,            \* the register calls in flight
    minted,         \* history: the claims, time and lifetime of each issuance
    codecCall,      \* last verify_token call and its result
    rc,             \* the check_rate_limit calls in flight
    rcAllowed,      \* history: calls allowed since the counter key was absent
    rf,             \* the refresh_token calls in flight
    authCall,       \* last login, refresh, delete_user or activate_user call
    updCall,        \* last PUT /users/{user_id} or PUT /auth/me and its effect
    burst,          \* the check_rate_limit call of the one client
    allowedAt,      \* history: calls allowed at each tick
    emb             \* jobs' embedding fields, their tasks and the vector store

vars == <<now, rl, win, rlCall, issued, blacklistDb, refreshDb, loggedOut, req,
          redisBlacklist, redisRefresh, hist, lastCall, jobs, jobCall,
          users, userCall, reg, minted, codecCall, rc, rcAllowed, rf, authCall, updCall,
          burst, allowedAt, emb>>

gateVars == <<issued, loggedOut, req>>
rateVars == <<win, rlCall>>
sessVars == <<redisBlacklist, redisRefresh, hist, lastCall>>
jobVars  == <<jobs, jobCall>>
userVars == <<users, userCall, reg>>
codecVars == <<minted, codecCall>>
concVars == <<rc, rcAllowed>>
extVars == <<rf, authCall, updCall, burst, allowedAt, emb>>

\* ---- users ----------------------------------------------------------
Users == {"alice", "bob", "root"}

Role(u) == IF u = "root" THEN "admin" ELSE "user"

NoUser == "nobody"

\* ---- clock ----------------------------------------------------------
\* int(time.time()), redis TIME[0]
NowSec(t) == t \div TicksPerSec

\* int(x) of Python truncates toward zero; d is a difference in ticks
IntSeconds(d) == IF d >= 0 THEN d \div TicksPerSec ELSE 0 - ((0 - d) \div TicksPerSec)

Max(a, b) == IF a >= b THEN a ELSE b

\* ---- Redis rate-limit key -------------------------------------------
NoExpiry == 0 - 1

RlAbsent == [count |-> 0, expiry |-> 0]

\* EXISTS ratelimit:{identifier}
RlExists(k) == k.count > 0

\* TTL key: whole seconds left, rounded as Redis does; -1 for no expiry
RlTtl(k, t) ==
    IF k.expiry = NoExpiry THEN 0 - 1
    ELSE (2 * (k.expiry - t) + TicksPerSec) \div (2 * TicksPerSec)

\* Redis drops a key when its expiry is reached
RlExpire(k, t) == IF k.count > 0 /\ k.expiry # NoExpiry /\ t >= k.expiry THEN RlAbsent ELSE k

\* the store calls check_rate_limit makes, in order, on each branch
FailPoints(k) ==
    IF RlExists(k) THEN {"none", "time", "exists", "incr", "ttl"}
    ELSE {"none", "time", "exists", "setex"}

NoResult == [allowed |-> FALSE, remaining |-> 0 - 1, reset |-> 0 - 1]

DeniedBug(count, limit) == count >= limit

DeniedNeverBug(count, limit) == FALSE

\* the comparison of check_rate_limit that denies a request
Denied(count, limit) == count > limit

\* RedisClient.check_rate_limit: the key after the call, whether the call
\* returned (ok) or raised, and the result.  failAt is the store call that
\* raises ("none": the store is available).
CheckRateLimit(k, t, limit, window, failAt) ==
    IF failAt \in {"time", "exists"} THEN [key |-> k, ok |-> FALSE, res |-> NoResult]
    ELSE IF ~RlExists(k) THEN
        IF failAt = "setex" THEN [key |-> k, ok |-> FALSE, res |-> NoResult]
        ELSE [key |-> [count |-> 1, expiry |-> t + window * TicksPerSec],
              ok  |-> TRUE,
              res |-> [allowed |-> TRUE, remaining |-> limit - 1,
                       reset |-> NowSec(t) + window]]
    ELSE IF failAt = "incr" THEN [key |-> k, ok |-> FALSE, res |-> NoResult]
    ELSE LET k2 == [k EXCEPT !.count = @ + 1] IN
        IF failAt = "ttl" THEN [key |-> k2, ok |-> FALSE, res |-> NoResult]
        ELSE IF Denied(k2.count, limit)
             THEN [key |-> k2, ok |-> TRUE,
                   res |-> [allowed |-> FALSE, remaining |-> 0,
                            reset |-> NowSec(t) + RlTtl(k2, t)]]
             ELSE [key |-> k2, ok |-> TRUE,
                   res |-> [allowed |-> TRUE, remaining |-> limit - k2.count + 1,
                            reset |-> NowSec(t) + RlTtl(k2, t)]]

\* ---- Token codec (utils/security.py) ---------------------------------
NoPayload == [sub |-> NoUser, user_id |-> NoUser, role |-> "none", jti |-> 0, exp |-> 0]

\* create_access_token(data, expires_delta): the claims signed at tick t
CreateAccessToken(data, t, ttl) ==
    [sub |-> data.sub, user_id |-> data.user_id, role |-> data.role,
     jti |-> data.jti, exp |-> t + ttl * TicksPerSec]

VerifyTokenBug(tok, t, toks) ==
    IF tok \in 1..Len(toks) /\ t <= toks[tok].exp THEN toks[tok] ELSE NoPayload

\* verify_token(token): token 0 stands for a token with a bad signature,
\* token k >= 1 for the k-th token signed by generate_tokens
VerifyToken(tok, t, toks) ==
    IF tok \in 1..Len(toks) /\ t < toks[tok].exp THEN toks[tok] ELSE NoPayload

\* ---- AuthService (relational session store) -------------------------
AuthIsTokenBlacklistedBug(bl, jti) == FALSE

\* AuthService.is_token_blacklisted
AuthIsTokenBlacklisted(bl, jti) == \E row \in bl : row.jti = jti

\* AuthService.blacklist_token: session.add + commit
AuthBlacklistToken(bl, jti, uid, expiresAt) ==
    bl \cup {[jti |-> jti, user_id |-> uid, expires_at |-> expiresAt]}

\* AuthService.create_refresh_token: the table after the insert; the new
\* token is the index of the new row
AuthCreateRefreshToken(db, u, t) ==
    Append(db, [user_id |-> u, expires_at |-> t + RefreshTtl * TicksPerSec,
                is_active |-> TRUE])

AuthValidateRefreshTokenBug(db, tok, t) ==
    IF tok \in 1..Len(db) /\ db[tok].is_active THEN db[tok].user_id ELSE NoUser

\* AuthService.validate_refresh_token
AuthValidateRefreshToken(db, tok, t) ==
    IF tok \in 1..Len(db) /\ db[tok].is_active /\ db[tok].expires_at > t
    THEN db[tok].user_id ELSE NoUser

\* AuthService.revoke_refresh_token
AuthRevokeRefreshToken(db, tok) ==
    IF tok \in 1..Len(db) THEN [db EXCEPT ![tok].is_active = FALSE] ELSE db

\* ---- AuthMiddleware.dispatch ----------------------------------------
NoIdentity == [id |-> NoUser, role |-> "none", sub |-> NoUser]

HasIdentity(r) == r.user # NoIdentity

AuthDispatchBug(hdr, user, t, toks, bl, dbOk) ==
    IF hdr.kind = "bearer" THEN
        LET payload == VerifyToken(hdr.tok, t, toks)
            ident == [id |-> payload.user_id, role |-> payload.role,
                      sub |-> payload.sub]
        IN
        IF payload # NoPayload THEN
            IF ~dbOk THEN [out |-> "raise", user |-> ident, verified |-> TRUE]
            ELSE IF AuthIsTokenBlacklisted(bl, payload.jti)
                 THEN [out |-> "reject", user |-> ident, verified |-> TRUE]
                 ELSE [out |-> "forward", verified |-> TRUE, user |-> ident]
        ELSE [out |-> "forward", user |-> user, verified |-> FALSE]
    ELSE [out |-> "forward", user |-> user, verified |-> FALSE]

\* out: "forward" (call_next), "reject" (401 JSONResponse) or "raise";
\* user: request.state.user after the gate.  dbOk = FALSE: the blacklist
\* lookup raises.
AuthDispatch(hdr, user, t, toks, bl, dbOk) ==
    IF hdr.kind = "bearer" THEN
        LET payload == VerifyToken(hdr.tok, t, toks) IN
        IF payload # NoPayload THEN
            IF ~dbOk THEN [out |-> "raise", user |-> user, verified |-> TRUE]
            ELSE IF AuthIsTokenBlacklisted(bl, payload.jti)
                 THEN [out |-> "reject", user |-> user, verified |-> TRUE]
                 ELSE [out |-> "forward", verified |-> TRUE,
                       user |-> [id |-> payload.user_id, role |-> payload.role,
                                 sub |-> payload.sub]]
        ELSE [out |-> "forward", user |-> user, verified |-> FALSE]
    ELSE [out |-> "forward", user |-> user, verified |-> FALSE]

\* ---- RateLimitMiddleware.dispatch -----------------------------------
NoHeaders == [limit |-> 0 - 1, remaining |-> 0 - 1, reset |-> 0 - 1, window |-> 0 - 1]

\* headers of the try branch
RateHeaders(res) ==
    [limit |-> Limit, remaining |-> Max(0, res.remaining), reset |-> res.reset,
     window |-> Window]

FailOpenHeadersBug(t) ==
    [limit |-> Limit, remaining |-> Limit, reset |-> NowSec(t) + Window,
     window |-> Window]

\* headers of the except branch
FailOpenHeaders(t) ==
    [limit |-> Limit, remaining |-> Limit - 1, reset |-> NowSec(t) + Window,
     window |-> Window]

\* ---- the request in flight -------------------------------------------
Ops == {"login", "logout", "refresh", "me", "root"}

Idle ==
    [pc |-> "idle", op |-> "none", hdr |-> [kind |-> "none", tok |-> 0], arg |-> 0,
     user |-> NoIdentity, path |-> "none", rlRes |-> NoResult, prior |-> 0,
     down |-> "none", dstatus |-> 0,
     status |-> 0, hdrs |-> NoHeaders, retryAfter |-> 0,
     gateCalls |-> 0, handlerCalls |-> 0, verifyFailed |-> FALSE,
     lookupFailed |-> FALSE, lookupOk |-> FALSE, rlFailed |-> FALSE,
     later |-> FALSE]

\* bearer headers a client can send: none, one that does not start with
\* "Bearer ", a token with a bad signature (0) or a token it was issued
Headers ==
    {[kind |-> "none", tok |-> 0], [kind |-> "malformed", tok |-> 0]}
    \cup {[kind |-> "bearer", tok |-> k] : k \in 0..Len(issued)}

\* request bodies: login with a wrong password (0) or the right one (1); logout
\* and refresh with an unknown token (0) or one that was issued
Args(op) ==
    CASE op = "login" -> {0, 1}
      [] op \in {"logout", "refresh"} -> 0..Len(issued)
      [] OTHER -> {0}

CallNextBug == "handler"

\* call_next of RateLimitMiddleware: AuthMiddleware was added first, so it
\* is the next layer in, and the routes come after it
CallNext == "gate"

\* a client sends a request; it enters RateLimitMiddleware.dispatch
StartRequest ==
    /\ req.pc = "idle"
    /\ rl.count <= Limit
    /\ \E op \in Ops, h \in Headers :
         \E a \in Args(op) :
           /\ op \in {"login", "refresh"} => Len(issued) < MaxTokens
           /\ req' = [Idle EXCEPT !.pc = "rl", !.op = op, !.hdr = h, !.arg = a,
                        !.later = (h.kind = "bearer" /\ h.tok \in loggedOut)]
    /\ UNCHANGED <<now, rl, issued, blacklistDb, refreshDb, loggedOut>>
    /\ UNCHANGED <<rateVars, sessVars, jobVars>>
    /\ UNCHANGED <<userVars, codecVars, concVars>>
    /\ UNCHANGED extVars

\* RateLimitMiddleware.dispatch up to its first call_next: the call of
\* check_rate_limit returns (try branch) or raises (except branch); the
\* result's "allowed" is not looked at
RateLimitCheck ==
    /\ req.pc = "rl"
    /\ \E f \in FailPoints(rl) :
         LET c == CheckRateLimit(rl, now, Limit, Window, f) IN
         /\ rl' = c.key
         /\ req' = [req EXCEPT !.pc = CallNext,
                      !.path = IF c.ok THEN "try" ELSE "except",
                      !.rlRes = c.res, !.prior = rl.count, !.rlFailed = ~c.ok]
    /\ UNCHANGED <<now, issued, blacklistDb, refreshDb, loggedOut>>
    /\ UNCHANGED <<rateVars, sessVars, jobVars>>
    /\ UNCHANGED <<userVars, codecVars, concVars>>
    /\ UNCHANGED extVars

\* call_next of the rate limiter: AuthMiddleware.dispatch
Gate ==
    /\ req.pc = "gate"
    /\ \E dbOk \in BOOLEAN :
         LET g == AuthDispatch(req.hdr, req.user, now, issued, blacklistDb, dbOk) IN
         /\ g.out = "raise" <=> ~dbOk
         /\ req' = [req EXCEPT
                      !.pc = IF g.out = "forward" THEN "handler" ELSE "back",
                      !.user = g.user,
                      !.down = CASE g.out = "forward" -> "none"
                                 [] g.out = "reject" -> "response"
                                 [] OTHER -> "raised",
                      !.dstatus = IF g.out = "reject" THEN 401 ELSE 0,
                      !.gateCalls = @ + 1,
                      !.verifyFailed = @ \/ (req.hdr.kind = "bearer" /\ ~g.verified),
                      !.lookupFailed = @ \/ g.out = "raise",
                      !.lookupOk = @ \/ (g.verified /\ g.out = "forward")]
    /\ UNCHANGED <<now, rl, issued, blacklistDb, refreshDb, loggedOut>>
    /\ UNCHANGED <<rateVars, sessVars, jobVars>>
    /\ UNCHANGED <<userVars, codecVars, concVars>>
    /\ UNCHANGED extVars

\* what a route handler hands back to the middleware stack: a response
\* (HTTPException included) or an exception that is not an HTTPException
Respond(r, code) ==
    [r EXCEPT !.pc = "back", !.down = "response", !.dstatus = code,
              !.handlerCalls = @ + 1]

Raise(r) ==
    [r EXCEPT !.pc = "back", !.down = "raised", !.dstatus = 0,
              !.handlerCalls = @ + 1]

LoginUser(a) == "alice"

\* the refresh token generate_tokens issued together with the access token
\* jti: both are the jti-th of their kind
PairedRefreshToken(jti) == jti

\* generate_tokens: access_data, the jti-th uuid4 written as jti
AccessData(jti, u, role) == [sub |-> u, user_id |-> u, role |-> role, jti |-> jti]

\* AuthService.generate_tokens: the access token and the refresh token of
\* one pair get the same index
GenerateTokens(u) ==
    /\ issued' = Append(issued, CreateAccessToken(AccessData(Len(issued) + 1, u, Role(u)),
                                                  now, AccessTtl))
    /\ refreshDb' = AuthCreateRefreshToken(refreshDb, u, now)

\* POST /auth/login: AuthController.login
Login ==
    /\ req.pc = "handler" /\ req.op = "login"
    /\ \E dbOk \in BOOLEAN :
         IF ~dbOk THEN req' = Raise(req) /\ UNCHANGED <<issued, refreshDb>>
         ELSE IF req.arg = 0
              THEN req' = Respond(req, 401) /\ UNCHANGED <<issued, refreshDb>>
              ELSE /\ GenerateTokens(LoginUser(req.arg))
                   /\ req' = Respond(req, 200)
    /\ UNCHANGED <<now, rl, blacklistDb, loggedOut>>
    /\ UNCHANGED <<rateVars, sessVars, jobVars>>
    /\ UNCHANGED <<userVars, codecVars, concVars>>
    /\ UNCHANGED extVars

\* request.state.refresh_token: no code of the application sets it
StateRefreshToken(r) == 0

\* POST /auth/logout: AuthController.logout.  A second row with the same
\* jti violates the unique index of token_blacklist and the commit raises.
Logout ==
    /\ req.pc = "handler" /\ req.op = "logout"
    /\ LET payload == VerifyToken(req.arg, now, issued) IN
       IF payload = NoPayload
       THEN req' = Respond(req, 401) /\ UNCHANGED <<blacklistDb, refreshDb, loggedOut>>
       ELSE \E dbOk \in BOOLEAN :
            IF ~dbOk \/ AuthIsTokenBlacklisted(blacklistDb, payload.jti)
            THEN /\ ~dbOk => ~AuthIsTokenBlacklisted(blacklistDb, payload.jti)
                 /\ req' = Raise(req)
                 /\ UNCHANGED <<blacklistDb, refreshDb, loggedOut>>
            ELSE /\ blacklistDb' = AuthBlacklistToken(blacklistDb, payload.jti,
                                                      payload.user_id, payload.exp)
                 /\ refreshDb' = IF StateRefreshToken(req) # 0
                                 THEN AuthRevokeRefreshToken(refreshDb, StateRefreshToken(req))
                                 ELSE refreshDb
                 /\ loggedOut' = loggedOut \cup {payload.jti}
                 /\ req' = Respond(req, 200)
    /\ UNCHANGED <<now, rl, issued>>
    /\ UNCHANGED <<rateVars, sessVars, jobVars>>
    /\ UNCHANGED <<userVars, codecVars, concVars>>
    /\ UNCHANGED extVars

\* POST /auth/refresh: AuthController.refresh_token
Refresh ==
    /\ req.pc = "handler" /\ req.op = "refresh"
    /\ \E dbOk \in BOOLEAN :
         IF ~dbOk THEN req' = Raise(req) /\ UNCHANGED <<issued, refreshDb>>
         ELSE LET u == AuthValidateRefreshToken(refreshDb, req.arg, now) IN
              IF u = NoUser
              THEN req' = Respond(req, 401) /\ UNCHANGED <<issued, refreshDb>>
              ELSE /\ issued' = Append(issued,
                                        CreateAccessToken(AccessData(Len(issued) + 1, u, Role(u)),
                                                          now, AccessTtl))
                   /\ refreshDb' = AuthRevokeRefreshToken(
                                       AuthCreateRefreshToken(refreshDb, u, now), req.arg)
                   /\ req' = Respond(req, 200)
    /\ UNCHANGED <<now, rl, blacklistDb, loggedOut>>
    /\ UNCHANGED <<rateVars, sessVars, jobVars>>
    /\ UNCHANGED <<userVars, codecVars, concVars>>
    /\ UNCHANGED extVars

\* GET /auth/me: AuthController.get_current_user
GetCurrentUser ==
    /\ req.pc = "handler" /\ req.op = "me"
    /\ IF ~HasIdentity(req) THEN req' = Respond(req, 401)
       ELSE \E dbOk \in BOOLEAN :
              req' = IF dbOk THEN Respond(req, 200) ELSE Raise(req)
    /\ UNCHANGED <<now, rl, issued, blacklistDb, refreshDb, loggedOut>>
    /\ UNCHANGED <<rateVars, sessVars, jobVars>>
    /\ UNCHANGED <<userVars, codecVars, concVars>>
    /\ UNCHANGED extVars

\* GET /: a public route
Root ==
    /\ req.pc = "handler" /\ req.op = "root"
    /\ req' = Respond(req, 200)
    /\ UNCHANGED <<now, rl, issued, blacklistDb, refreshDb, loggedOut>>
    /\ UNCHANGED <<rateVars, sessVars, jobVars>>
    /\ UNCHANGED <<userVars, codecVars, concVars>>
    /\ UNCHANGED extVars

\* call_next returned a response: the rate limiter adds its headers (those
\* of the branch it is in) and returns it
AddHeaders ==
    /\ req.pc = "back" /\ req.down = "response"
    /\ req' = [req EXCEPT !.pc = "done", !.status = req.dstatus,
                 !.hdrs = IF req.path = "try" THEN RateHeaders(req.rlRes)
                          ELSE FailOpenHeaders(now)]
    /\ UNCHANGED <<now, rl, issued, blacklistDb, refreshDb, loggedOut>>
    /\ UNCHANGED <<rateVars, sessVars, jobVars>>
    /\ UNCHANGED <<userVars, codecVars, concVars>>
    /\ UNCHANGED extVars

\* call_next raised inside the try block: "except Exception" takes it for a
\* store failure and calls call_next again
ExceptCallNext ==
    /\ req.pc = "back" /\ req.down = "raised" /\ req.path = "try"
    /\ req' = [req EXCEPT !.pc = CallNext, !.path = "except", !.down = "none"]
    /\ UNCHANGED <<now, rl, issued, blacklistDb, refreshDb, loggedOut>>
    /\ UNCHANGED <<rateVars, sessVars, jobVars>>
    /\ UNCHANGED <<userVars, codecVars, concVars>>
    /\ UNCHANGED extVars

\* call_next raised inside the except block: the exception leaves the
\* middleware and the server answers 500 without rate-limit headers
ServerError ==
    /\ req.pc = "back" /\ req.down = "raised" /\ req.path = "except"
    /\ req' = [req EXCEPT !.pc = "done", !.status = 500]
    /\ UNCHANGED <<now, rl, issued, blacklistDb, refreshDb, loggedOut>>
    /\ UNCHANGED <<rateVars, sessVars, jobVars>>
    /\ UNCHANGED <<userVars, codecVars, concVars>>
    /\ UNCHANGED extVars

\* the response has left the server
Finish ==
    /\ req.pc = "done"
    /\ req' = Idle
    /\ UNCHANGED <<now, rl, issued, blacklistDb, refreshDb, loggedOut>>
    /\ UNCHANGED <<rateVars, sessVars, jobVars>>
    /\ UNCHANGED <<userVars, codecVars, concVars>>
    /\ UNCHANGED extVars

\* a second passes, between requests, before the gate or before the handler
\* runs (the sub-second cases of the stores are those of the direct calls
\* below); Redis drops the counter key when its TTL is over
Tick ==
    /\ now + TicksPerSec <= MaxTime
    /\ req.pc \in {"idle", "gate", "handler"}
    /\ now' = now + TicksPerSec
    /\ rl' = RlExpire(rl, now + TicksPerSec)
    /\ UNCHANGED <<issued, blacklistDb, refreshDb, loggedOut, req>>
    /\ UNCHANGED <<rateVars, sessVars, jobVars>>
    /\ UNCHANGED <<userVars, codecVars, concVars>>
    /\ UNCHANGED extVars

\* ---- check_rate_limit called directly (SpecRate) ---------------------
NoRlCall == [seq |-> 0, clean |-> FALSE, ok |-> FALSE, res |-> NoResult]

\* one call of check_rate_limit for the client; seq numbers the calls made
\* since the counter was absent, clean says that no store call has failed
\* since then
RateCall ==
    /\ win.calls < MaxCalls
    /\ \E f \in FailPoints(rl) :
         LET c == CheckRateLimit(rl, now, Limit, Window, f)
             n == IF RlExists(rl) THEN win.calls + 1 ELSE 1
             cl == (RlExists(rl) => win.clean) /\ f = "none"
         IN  /\ rl' = c.key
             /\ win' = [calls |-> n, clean |-> cl]
             /\ rlCall' = [seq |-> n, clean |-> cl, ok |-> c.ok, res |-> c.res]
    /\ UNCHANGED <<now, blacklistDb, refreshDb>>
    /\ UNCHANGED <<gateVars, sessVars, jobVars>>
    /\ UNCHANGED <<userVars, codecVars, concVars>>
    /\ UNCHANGED extVars

\* time passes; Redis drops the counter key when its TTL is over
RateTick ==
    /\ now < MaxTime
    /\ now' = now + 1
    /\ rl' = RlExpire(rl, now + 1)
    /\ win' = IF RlExpire(rl, now + 1) = RlAbsent
              THEN [calls |-> 0, clean |-> TRUE] ELSE win
    /\ UNCHANGED <<rlCall, blacklistDb, refreshDb>>
    /\ UNCHANGED <<gateVars, sessVars, jobVars>>
    /\ UNCHANGED <<userVars, codecVars, concVars>>
    /\ UNCHANGED extVars

\* ---- RedisClient session store (key-value backend) -------------------
MaxSessTokens == 2    \* refresh tokens / jti the direct calls use per backend
MaxExpSec     == 2    \* latest token expiry, in seconds, passed to blacklist

\* the keys of a Redis hash of keys that are still alive at tick t
RedisExpire(store, t) ==
    [k \in {x \in DOMAIN store : store[x].expiry > t} |-> store[k]]

\* ttl = max(1, int(expires_at - time.time()))
BlacklistTtl(expiresAt, t) == Max(1, IntSeconds(expiresAt - t))

\* RedisClient.blacklist_token: SETEX blacklist:token:{jti}
RedisBlacklistToken(store, jti, uid, expiresAt, t) ==
    [k \in DOMAIN store \cup {jti} |->
        IF k = jti
        THEN [user_id |-> uid, expires_at |-> expiresAt,
              expiry |-> t + BlacklistTtl(expiresAt, t) * TicksPerSec]
        ELSE store[k]]

\* RedisClient.is_token_blacklisted: EXISTS blacklist:token:{jti}
RedisIsTokenBlacklisted(store, jti) == jti \in DOMAIN store

\* RedisClient.store_refresh_token: SETEX refresh:{token}
RedisStoreRefreshToken(store, tok, uid, t) ==
    [k \in DOMAIN store \cup {tok} |->
        IF k = tok
        THEN [user_id |-> uid, expiry |-> t + RefreshTtl * TicksPerSec]
        ELSE store[k]]

\* RedisClient.validate_refresh_token: GET refresh:{token}
RedisValidateRefreshToken(store, tok) ==
    IF tok \in DOMAIN store THEN store[tok].user_id ELSE NoUser

\* RedisClient.revoke_refresh_token: DEL refresh:{token}
RedisRevokeRefreshToken(store, tok) ==
    [k \in DOMAIN store \ {tok} |-> store[k]]

\* ---- the session store called directly (SpecSession) ------------------
\* backend: the store the deployment uses, relational ("sql", AuthService)
\* or key-value ("kv", RedisClient).
\* history of the calls: per backend the refresh tokens created (owner and
\* tick of creation), those revoked and those seen invalid; the expiry of
\* the access token of each jti, per backend the jti blacklisted, and the
\* tick of the latest blacklist_token call that stored each jti
NoHist ==
    [backend |-> "sql", sqlMade |-> <<>>, sqlRevoked |-> {}, sqlDead |-> {},
     kvMade |-> <<>>, kvRevoked |-> {}, kvDead |-> {},
     tokExp |-> <<>>, sqlBl |-> {}, kvBl |-> {}, blAt |-> <<>>]

NoCall == [op |-> "none", tok |-> 0, result |-> NoUser]

SqlDeadNow(db, t) ==
    {k \in 1..Len(db) : AuthValidateRefreshToken(db, k, t) = NoUser}

KvDeadNow(store, made) ==
    {k \in DOMAIN made : RedisValidateRefreshToken(store, k) = NoUser}

\* AuthService.create_refresh_token(u)
SessCreate ==
    /\ hist.backend = "sql"
    /\ Len(refreshDb) < MaxSessTokens
    /\ \E u \in {"alice", "bob"} :
         /\ refreshDb' = AuthCreateRefreshToken(refreshDb, u, now)
         /\ hist' = [hist EXCEPT !.sqlMade = Append(@, [user |-> u, at |-> now])]
         /\ lastCall' = [op |-> "create", tok |-> Len(refreshDb) + 1, result |-> u]
    /\ UNCHANGED <<now, rl, blacklistDb, redisBlacklist, redisRefresh>>
    /\ UNCHANGED <<gateVars, rateVars, jobVars>>
    /\ UNCHANGED <<userVars, codecVars, concVars>>
    /\ UNCHANGED extVars

\* AuthService.validate_refresh_token(tok), tok created before or unknown (0)
SessValidate ==
    /\ hist.backend = "sql"
    /\ \E tok \in 0..Len(refreshDb) :
         lastCall' = [op |-> "validate", tok |-> tok,
                      result |-> AuthValidateRefreshToken(refreshDb, tok, now)]
    /\ UNCHANGED <<now, rl, blacklistDb, refreshDb, redisBlacklist, redisRefresh, hist>>
    /\ UNCHANGED <<gateVars, rateVars, jobVars>>
    /\ UNCHANGED <<userVars, codecVars, concVars>>
    /\ UNCHANGED extVars

\* AuthService.revoke_refresh_token(tok)
SessRevoke ==
    /\ hist.backend = "sql"
    /\ \E tok \in 0..Len(refreshDb) :
         /\ refreshDb' = AuthRevokeRefreshToken(refreshDb, tok)
         /\ hist' = [hist EXCEPT
                       !.sqlRevoked = IF tok = 0 THEN @ ELSE @ \cup {tok},
                       !.sqlDead = @ \cup SqlDeadNow(refreshDb', now)]
         /\ lastCall' = [op |-> "revoke", tok |-> tok, result |-> NoUser]
    /\ UNCHANGED <<now, rl, blacklistDb, redisBlacklist, redisRefresh>>
    /\ UNCHANGED <<gateVars, rateVars, jobVars>>
    /\ UNCHANGED <<userVars, codecVars, concVars>>
    /\ UNCHANGED extVars

\* createRefreshToken on the key-value backend: store_refresh_token with a
\* fresh random token
KvCreate ==
    /\ hist.backend = "kv"
    /\ Len(hist.kvMade) < MaxSessTokens
    /\ \E u \in {"alice", "bob"} :
         /\ redisRefresh' = RedisStoreRefreshToken(redisRefresh,
                                                   Len(hist.kvMade) + 1, u, now)
         /\ hist' = [hist EXCEPT !.kvMade = Append(@, [user |-> u, at |-> now])]
         /\ lastCall' = [op |-> "kvcreate", tok |-> Len(hist.kvMade) + 1, result |-> u]
    /\ UNCHANGED <<now, rl, blacklistDb, refreshDb, redisBlacklist>>
    /\ UNCHANGED <<gateVars, rateVars, jobVars>>
    /\ UNCHANGED <<userVars, codecVars, concVars>>
    /\ UNCHANGED extVars

\* RedisClient.validate_refresh_token(tok)
KvValidate ==
    /\ hist.backend = "kv"
    /\ \E tok \in 0..Len(hist.kvMade) :
         lastCall' = [op |-> "kvvalidate", tok |-> tok,
                      result |-> RedisValidateRefreshToken(redisRefresh, tok)]
    /\ UNCHANGED <<now, rl, blacklistDb, refreshDb, redisBlacklist, redisRefresh, hist>>
    /\ UNCHANGED <<gateVars, rateVars, jobVars>>
    /\ UNCHANGED <<userVars, codecVars, concVars>>
    /\ UNCHANGED extVars

\* RedisClient.revoke_refresh_token(tok)
KvRevoke ==
    /\ hist.backend = "kv"
    /\ \E tok \in 0..Len(hist.kvMade) :
         /\ redisRefresh' = RedisRevokeRefreshToken(redisRefresh, tok)
         /\ hist' = [hist EXCEPT
                       !.kvRevoked = IF tok = 0 THEN @ ELSE @ \cup {tok},
                       !.kvDead = @ \cup KvDeadNow(redisRefresh', hist.kvMade)]
         /\ lastCall' = [op |-> "kvrevoke", tok |-> tok, result |-> NoUser]
    /\ UNCHANGED <<now, rl, blacklistDb, refreshDb, redisBlacklist>>
    /\ UNCHANGED <<gateVars, rateVars, jobVars>>
    /\ UNCHANGED <<userVars, codecVars, concVars>>
    /\ UNCHANGED extVars

\* the expiry of the access token with this jti: a whole second up to
\* MaxExpSec, the same in every call that names the jti
TokenExpiries(jti) ==
    IF jti \in DOMAIN hist.tokExp THEN {hist.tokExp[jti]}
    ELSE {e * TicksPerSec : e \in 0..MaxExpSec}

NoteExpiry(h, jti, e) ==
    IF jti \in DOMAIN h.tokExp THEN h ELSE [h EXCEPT !.tokExp = @ @@ (jti :> e)]

\* AuthService.blacklist_token(jti, user, expires_at); the unique index on
\* jti makes the commit of a second row raise
SessBlacklist ==
    /\ hist.backend = "sql"
    /\ \E jti \in 1..MaxSessTokens :
         \E e \in TokenExpiries(jti) :
           IF AuthIsTokenBlacklisted(blacklistDb, jti)
           THEN /\ lastCall' = [op |-> "blacklist", tok |-> jti, result |-> "raised"]
                /\ UNCHANGED <<blacklistDb, hist>>
           ELSE /\ blacklistDb' = AuthBlacklistToken(blacklistDb, jti, "alice", e)
                /\ hist' = [NoteExpiry(hist, jti, e) EXCEPT !.sqlBl = @ \cup {jti},
                                                            !.blAt = (jti :> now) @@ @]
                /\ lastCall' = [op |-> "blacklist", tok |-> jti, result |-> "ok"]
    /\ UNCHANGED <<now, rl, refreshDb, redisBlacklist, redisRefresh>>
    /\ UNCHANGED <<gateVars, rateVars, jobVars>>
    /\ UNCHANGED <<userVars, codecVars, concVars>>
    /\ UNCHANGED extVars

\* RedisClient.blacklist_token(jti, user, expires_at)
KvBlacklist ==
    /\ hist.backend = "kv"
    /\ \E jti \in 1..MaxSessTokens :
         \E e \in TokenExpiries(jti) :
           /\ redisBlacklist' = RedisBlacklistToken(redisBlacklist, jti, "alice", e, now)
           /\ hist' = [NoteExpiry(hist, jti, e) EXCEPT !.kvBl = @ \cup {jti},
                                                       !.blAt = (jti :> now) @@ @]
           /\ lastCall' = [op |-> "kvblacklist", tok |-> jti, result |-> "ok"]
    /\ UNCHANGED <<now, rl, blacklistDb, refreshDb, redisRefresh>>
    /\ UNCHANGED <<gateVars, rateVars, jobVars>>
    /\ UNCHANGED <<userVars, codecVars, concVars>>
    /\ UNCHANGED extVars

\* AuthService.is_token_blacklisted(jti)
SessIsBlacklisted ==
    /\ hist.backend = "sql"
    /\ \E jti \in 1..MaxSessTokens :
         lastCall' = [op |-> "isblacklisted", tok |-> jti,
                      result |-> IF AuthIsTokenBlacklisted(blacklistDb, jti)
                                 THEN "yes" ELSE "no"]
    /\ UNCHANGED <<now, rl, blacklistDb, refreshDb, redisBlacklist, redisRefresh, hist>>
    /\ UNCHANGED <<gateVars, rateVars, jobVars>>
    /\ UNCHANGED <<userVars, codecVars, concVars>>
    /\ UNCHANGED extVars

\* RedisClient.is_token_blacklisted(jti)
KvIsBlacklisted ==
    /\ hist.backend = "kv"
    /\ \E jti \in 1..MaxSessTokens :
         lastCall' = [op |-> "kvisblacklisted", tok |-> jti,
                      result |-> IF RedisIsTokenBlacklisted(redisBlacklist, jti)
                                 THEN "yes" ELSE "no"]
    /\ UNCHANGED <<now, rl, blacklistDb, refreshDb, redisBlacklist, redisRefresh, hist>>
    /\ UNCHANGED <<gateVars, rateVars, jobVars>>
    /\ UNCHANGED <<userVars, codecVars, concVars>>
    /\ UNCHANGED extVars

\* time passes; Redis drops the keys whose TTL is over
SessTick ==
    /\ now < MaxTime
    /\ now' = now + 1
    /\ redisBlacklist' = RedisExpire(redisBlacklist, now + 1)
    /\ redisRefresh' = RedisExpire(redisRefresh, now + 1)
    /\ hist' = [hist EXCEPT
                  !.sqlDead = @ \cup SqlDeadNow(refreshDb, now + 1),
                  !.kvDead = @ \cup KvDeadNow(redisRefresh', hist.kvMade)]
    /\ UNCHANGED <<rl, blacklistDb, refreshDb, lastCall>>
    /\ UNCHANGED <<gateVars, rateVars, jobVars>>
    /\ UNCHANGED <<userVars, codecVars, concVars>>
    /\ UNCHANGED extVars

\* ---- jobs (SpecJobs) ---------------------------------------------------
MaxJobs  == 2     \* jobs created
MaxTitle == 1     \* titles an update can set

NoJobCall ==
    [op |-> "none", layer |-> "none", job |-> 0, by |-> NoUser, owner |-> NoUser,
     status |-> 0, changed |-> FALSE]

\* JobService.get_job_by_id
JobExists(js, job) == job \in 1..Len(js) /\ js[job].present

\* JobService.update_job(job_id, job_update, created_by, background_tasks):
\* the table after the call and the status of the response
JobServiceUpdateJob(js, job, title, createdBy) ==
    IF ~JobExists(js, job) \/ js[job].created_by # createdBy
    THEN [jobs |-> js, status |-> 404]
    ELSE [jobs |-> [js EXCEPT ![job].title = title,
                              ![job].embedding_status = "pending"],
          status |-> 200]

\* JobService.delete_job(job_id, created_by, background_tasks)
JobServiceDeleteJob(js, job, createdBy) ==
    IF ~JobExists(js, job) \/ js[job].created_by # createdBy
    THEN [jobs |-> js, status |-> 404]
    ELSE [jobs |-> [js EXCEPT ![job].present = FALSE], status |-> 200]

\* JobController.update_job(job_id, job_update, request) and
\* JobController.delete_job(job_id, request): without an identity 401; else
\* the service is called without its required background_tasks argument
\* and Python raises TypeError before the service runs
JobControllerMutate(js, ident) ==
    IF ident = NoIdentity THEN [jobs |-> js, status |-> 401]
    ELSE [jobs |-> js, status |-> 500]

\* the routes PUT and DELETE /jobs/{job_id} pass background_tasks to a
\* controller method that does not take it: TypeError, answered 500
JobRouteMutate(js, ident) == [jobs |-> js, status |-> 500]

Identities == {NoIdentity} \cup {[id |-> u, role |-> Role(u), sub |-> u] : u \in Users}

Owner(js, job) == IF job \in 1..Len(js) THEN js[job].created_by ELSE NoUser

\* JobService.create_job(job_create, created_by, background_tasks)
ServiceCreateJob ==
    /\ Len(jobs) < MaxJobs
    /\ \E u \in Users :
         /\ jobs' = Append(jobs, [created_by |-> u, title |-> 0,
                                  embedding_status |-> "pending", present |-> TRUE])
         /\ jobCall' = [NoJobCall EXCEPT !.op = "create", !.layer = "service",
                          !.job = Len(jobs) + 1, !.by = u, !.owner = u,
                          !.status = 200, !.changed = TRUE]
    /\ UNCHANGED <<now, rl, blacklistDb, refreshDb>>
    /\ UNCHANGED <<gateVars, rateVars, sessVars>>
    /\ UNCHANGED <<userVars, codecVars, concVars>>
    /\ UNCHANGED extVars

NoteJobCall(op, layer, job, by, r) ==
    /\ jobs' = r.jobs
    /\ jobCall' = [op |-> op, layer |-> layer, job |-> job, by |-> by,
                   owner |-> Owner(jobs, job), status |-> r.status,
                   changed |-> r.jobs # jobs]

ServiceUpdateJob ==
    /\ \E job \in 1..Len(jobs), u \in Users, title \in 1..MaxTitle :
         /\ JobExists(jobs, job)
         /\ NoteJobCall("update", "service", job, u,
                        JobServiceUpdateJob(jobs, job, title, u))
    /\ UNCHANGED <<now, rl, blacklistDb, refreshDb>>
    /\ UNCHANGED <<gateVars, rateVars, sessVars>>
    /\ UNCHANGED <<userVars, codecVars, concVars>>
    /\ UNCHANGED extVars

ServiceDeleteJob ==
    /\ \E job \in 1..Len(jobs), u \in Users :
         /\ JobExists(jobs, job)
         /\ NoteJobCall("delete", "service", job, u,
                        JobServiceDeleteJob(jobs, job, u))
    /\ UNCHANGED <<now, rl, blacklistDb, refreshDb>>
    /\ UNCHANGED <<gateVars, rateVars, sessVars>>
    /\ UNCHANGED <<userVars, codecVars, concVars>>
    /\ UNCHANGED extVars

ControllerUpdateJob ==
    /\ \E job \in 1..Len(jobs), ident \in Identities :
         /\ JobExists(jobs, job)
         /\ NoteJobCall("update", "controller", job, ident.id,
                        JobControllerMutate(jobs, ident))
    /\ UNCHANGED <<now, rl, blacklistDb, refreshDb>>
    /\ UNCHANGED <<gateVars, rateVars, sessVars>>
    /\ UNCHANGED <<userVars, codecVars, concVars>>
    /\ UNCHANGED extVars

ControllerDeleteJob ==
    /\ \E job \in 1..Len(jobs), ident \in Identities :
         /\ JobExists(jobs, job)
         /\ NoteJobCall("delete", "controller", job, ident.id,
                        JobControllerMutate(jobs, ident))
    /\ UNCHANGED <<now, rl, blacklistDb, refreshDb>>
    /\ UNCHANGED <<gateVars, rateVars, sessVars>>
    /\ UNCHANGED <<userVars, codecVars, concVars>>
    /\ UNCHANGED extVars

RouteUpdateJob ==
    /\ \E job \in 1..Len(jobs), ident \in Identities :
         /\ JobExists(jobs, job)
         /\ NoteJobCall("update", "route", job, ident.id, JobRouteMutate(jobs, ident))
    /\ UNCHANGED <<now, rl, blacklistDb, refreshDb>>
    /\ UNCHANGED <<gateVars, rateVars, sessVars>>
    /\ UNCHANGED <<userVars, codecVars, concVars>>
    /\ UNCHANGED extVars

RouteDeleteJob ==
    /\ \E job \in 1..Len(jobs), ident \in Identities :
         /\ JobExists(jobs, job)
         /\ NoteJobCall("delete", "route", job, ident.id, JobRouteMutate(jobs, ident))
    /\ UNCHANGED <<now, rl, blacklistDb, refreshDb>>
    /\ UNCHANGED <<gateVars, rateVars, sessVars>>
    /\ UNCHANGED <<userVars, codecVars, concVars>>
    /\ UNCHANGED extVars

\* ---- user management (SpecUsers) ---------------------------------------
\* a row of table users; id, username and email of the seeded users are
\* their name
UserRow(u) ==
    [id |-> u, username |-> u, email |-> u, full_name |-> "none",
     is_active |-> TRUE, role |-> Role(u)]

\* the table the user-management calls start from
SeedUsers == {UserRow(u) : u \in Users}

\* target ids of the calls: the seeded users and an id no row has
TargetIds == Users \cup {"ghost"}

Unset == "unset"

\* values a body can carry for full_name and email: not supplied, null, or
\* a string
FullNames == {Unset, "none", "n1"}

Emails == {Unset, "none", "alice", "e1"}

\* UserService.get_user_by_id: the rows with this id (none or one)
GetUserById(us, id) == {u \in us : u.id = id}

\* setattr(db_user, field, value) for the fields the body supplies
ApplyUpdate(u, body) ==
    [u EXCEPT !.full_name = IF body.full_name = Unset THEN @ ELSE body.full_name,
              !.email = IF body.email = Unset THEN @ ELSE body.email]

\* the commit of an updated row fails when email is null (column not
\* nullable) or is the email of another row (unique index)
CommitRejects(us, row) ==
    \/ row.email = "none"
    \/ \E o \in us : o.id # row.id /\ o.email = row.email

\* UserService.update_user(user_id, user_update): the table after the call
\* and the status of the response
UserServiceUpdateUser(us, id, body) ==
    IF GetUserById(us, id) = {} THEN [users |-> us, status |-> 404, read |-> TRUE]
    ELSE LET old == CHOOSE u \in GetUserById(us, id) : TRUE
             row == ApplyUpdate(old, body)
         IN  IF CommitRejects(us, row)
             THEN [users |-> us, status |-> 500, read |-> TRUE]
             ELSE [users |-> (us \ {old}) \cup {row}, status |-> 200, read |-> TRUE]

Refused(us, code) == [users |-> us, status |-> code, read |-> FALSE]

UserControllerGetUserByIdBug(us, ident, id) ==
    IF ident = NoIdentity THEN Refused(us, 401)
    ELSE IF GetUserById(us, id) = {} THEN [users |-> us, status |-> 404, read |-> TRUE]
    ELSE [users |-> us, status |-> 200, read |-> TRUE]

\* UserController.get_user_by_id(user_id, request)
UserControllerGetUserById(us, ident, id) ==
    IF ident = NoIdentity THEN Refused(us, 401)
    ELSE IF ident.role # "admin" /\ ident.id # id THEN Refused(us, 403)
    ELSE IF GetUserById(us, id) = {} THEN [users |-> us, status |-> 404, read |-> TRUE]
    ELSE [users |-> us, status |-> 200, read |-> TRUE]

\* AuthController.get_all_users(request), behind GET /auth/admin/users
AuthControllerGetAllUsers(us, ident) ==
    IF ident = NoIdentity THEN Refused(us, 401)
    ELSE IF ident.role # "admin" THEN Refused(us, 403)
    ELSE [users |-> us, status |-> 200, read |-> TRUE]

\* UserController.get_all_users(request)
UserControllerGetAllUsers(us, ident) ==
    IF ident = NoIdentity THEN Refused(us, 401)
    ELSE IF ident.role # "admin" THEN Refused(us, 403)
    ELSE [users |-> us, status |-> 200, read |-> TRUE]

\* UserController.update_user(user_id, user_update, request)
UserControllerUpdateUser(us, ident, id, body) ==
    IF ident = NoIdentity THEN Refused(us, 401)
    ELSE IF ident.role # "admin" /\ ident.id # id THEN Refused(us, 403)
    ELSE UserServiceUpdateUser(us, id, body)

\* the row with is_active set, committed
SetActive(us, id, v) ==
    {IF u.id = id THEN [u EXCEPT !.is_active = v] ELSE u : u \in us}

UserControllerDeleteUserBug(us, ident, id) ==
    IF ident = NoIdentity THEN Refused(us, 401)
    ELSE IF ident.role # "admin" THEN Refused(us, 403)
    ELSE IF GetUserById(us, id) = {} THEN [users |-> us, status |-> 404, read |-> TRUE]
    ELSE [users |-> SetActive(us, id, FALSE), status |-> 200, read |-> TRUE]

\* UserController.delete_user(user_id, request)
UserControllerDeleteUser(us, ident, id) ==
    IF ident = NoIdentity THEN Refused(us, 401)
    ELSE IF ident.role # "admin" THEN Refused(us, 403)
    ELSE IF ident.id = id THEN Refused(us, 400)
    ELSE IF GetUserById(us, id) = {} THEN [users |-> us, status |-> 404, read |-> TRUE]
    ELSE [users |-> SetActive(us, id, FALSE), status |-> 200, read |-> TRUE]

UserControllerActivateUserBug(us, ident, id) ==
    IF ident = NoIdentity THEN Refused(us, 401)
    ELSE IF GetUserById(us, id) = {} THEN [users |-> us, status |-> 404, read |-> TRUE]
    ELSE [users |-> SetActive(us, id, TRUE), status |-> 200, read |-> TRUE]

\* UserController.activate_user(user_id, request)
UserControllerActivateUser(us, ident, id) ==
    IF ident = NoIdentity THEN Refused(us, 401)
    ELSE IF ident.role # "admin" THEN Refused(us, 403)
    ELSE IF GetUserById(us, id) = {} THEN [users |-> us, status |-> 404, read |-> TRUE]
    ELSE [users |-> SetActive(us, id, TRUE), status |-> 200, read |-> TRUE]

NoUserCall ==
    [op |-> "none", by |-> NoIdentity, target |-> NoUser, status |-> 0,
     read |-> FALSE, changed |-> FALSE, layer |-> "none"]

\* the call, its caller and target, and what it did to the table
NoteUserCall(op, layer, ident, id, r) ==
    /\ users' = r.users
    /\ userCall' = [op |-> op, by |-> ident, target |-> id, status |-> r.status,
                    read |-> r.read, changed |-> r.users # users, layer |-> layer]

CallGetUserById ==
    /\ \E ident \in Identities, id \in TargetIds :
         NoteUserCall("get_user_by_id", "users", ident, id,
                      UserControllerGetUserById(users, ident, id))
    /\ UNCHANGED <<now, rl, blacklistDb, refreshDb, reg>>
    /\ UNCHANGED <<gateVars, rateVars, sessVars, jobVars, codecVars, concVars>>
    /\ UNCHANGED extVars

CallGetAllUsers ==
    /\ \E ident \in Identities, layer \in {"users", "auth"} :
         NoteUserCall("get_all_users", layer, ident, NoUser,
                      IF layer = "auth"
                      THEN AuthControllerGetAllUsers(users, ident)
                      ELSE UserControllerGetAllUsers(users, ident))
    /\ UNCHANGED <<now, rl, blacklistDb, refreshDb, reg>>
    /\ UNCHANGED <<gateVars, rateVars, sessVars, jobVars, codecVars, concVars>>
    /\ UNCHANGED extVars

CallUpdateUser ==
    /\ \E ident \in Identities, id \in TargetIds :
         \E fn \in FullNames, em \in Emails :
           NoteUserCall("update_user", "users", ident, id,
                        UserControllerUpdateUser(users, ident, id,
                                             [full_name |-> fn, email |-> em]))
    /\ UNCHANGED <<now, rl, blacklistDb, refreshDb, reg>>
    /\ UNCHANGED <<gateVars, rateVars, sessVars, jobVars, codecVars, concVars>>
    /\ UNCHANGED extVars

CallDeleteUser ==
    /\ \E ident \in Identities, id \in TargetIds :
         NoteUserCall("delete_user", "users", ident, id,
                      UserControllerDeleteUser(users, ident, id))
    /\ UNCHANGED <<now, rl, blacklistDb, refreshDb, reg>>
    /\ UNCHANGED <<gateVars, rateVars, sessVars, jobVars, codecVars, concVars>>
    /\ UNCHANGED extVars

CallActivateUser ==
    /\ \E ident \in Identities, id \in TargetIds :
         NoteUserCall("activate_user", "users", ident, id,
                      UserControllerActivateUser(users, ident, id))
    /\ UNCHANGED <<now, rl, blacklistDb, refreshDb, reg>>
    /\ UNCHANGED <<gateVars, rateVars, sessVars, jobVars, codecVars, concVars>>
    /\ UNCHANGED extVars

\* ---- concurrent registration (SpecRegister) ----------------------------
RegProcs == 1..2

\* emails and usernames a registration can ask for: one a seeded user has
\* and one nobody has
RegEmails == {"alice", "e1"}

RegUsernames == {"alice", "u1"}

NoReg ==
    [p \in RegProcs |-> [pc |-> "idle", email |-> "none", username |-> "none",
                         status |-> 0, taken |-> FALSE]]

\* UserService.get_user_by_email / get_user_by_username found a row
EmailTaken(us, email) == \E u \in us : u.email = email

UsernameTaken(us, username) == \E u \in us : u.username = username

\* the row create_user inserts; its uuid is written as its email, which no
\* two rows share
NewUser(email, username) ==
    [id |-> email, username |-> username, email |-> email, full_name |-> "none",
     is_active |-> TRUE, role |-> "user"]

\* session.commit() of the new row: the unique indexes of users.email and
\* users.username reject a second row with the same value
InsertRejected(us, row) == EmailTaken(us, row.email) \/ UsernameTaken(us, row.username)

\* the call ends with this status; taken records whether the email or the
\* username was in the table at that moment
RegDone(p, code) ==
    reg' = [reg EXCEPT ![p].pc = "done", ![p].status = code,
              ![p].taken = EmailTaken(users, reg[p].email)
                           \/ UsernameTaken(users, reg[p].username)]

\* AuthController.register: the password check, then create_user starts
RegStart ==
    /\ \E p \in RegProcs :
         /\ reg[p].pc = "idle"
         /\ \E em \in RegEmails, un \in RegUsernames, strong \in BOOLEAN :
              reg' = [reg EXCEPT ![p] =
                        [pc |-> IF strong THEN "email" ELSE "done", email |-> em,
                         username |-> un, status |-> IF strong THEN 0 ELSE 400,
                         taken |-> FALSE]]
    /\ UNCHANGED <<now, rl, blacklistDb, refreshDb, users, userCall>>
    /\ UNCHANGED <<gateVars, rateVars, sessVars, jobVars, codecVars, concVars>>
    /\ UNCHANGED extVars

\* create_user: get_user_by_email, DuplicateUserException turned into 409
RegCheckEmail ==
    /\ \E p \in RegProcs :
         /\ reg[p].pc = "email"
         /\ IF EmailTaken(users, reg[p].email) THEN RegDone(p, 409)
            ELSE reg' = [reg EXCEPT ![p].pc = "username"]
    /\ UNCHANGED <<now, rl, blacklistDb, refreshDb, users, userCall>>
    /\ UNCHANGED <<gateVars, rateVars, sessVars, jobVars, codecVars, concVars>>
    /\ UNCHANGED extVars

\* create_user: get_user_by_username
RegCheckUsername ==
    /\ \E p \in RegProcs :
         /\ reg[p].pc = "username"
         /\ IF UsernameTaken(users, reg[p].username) THEN RegDone(p, 409)
            ELSE reg' = [reg EXCEPT ![p].pc = "commit"]
    /\ UNCHANGED <<now, rl, blacklistDb, refreshDb, users, userCall>>
    /\ UNCHANGED <<gateVars, rateVars, sessVars, jobVars, codecVars, concVars>>
    /\ UNCHANGED extVars

\* create_user: session.add and session.commit; the IntegrityError of a
\* rejected insert is not a DuplicateUserException and goes out as 500
RegCommit ==
    /\ \E p \in RegProcs :
         /\ reg[p].pc = "commit"
         /\ LET row == NewUser(reg[p].email, reg[p].username) IN
            IF InsertRejected(users, row)
            THEN RegDone(p, 500) /\ UNCHANGED users
            ELSE /\ users' = users \cup {row}
                 /\ reg' = [reg EXCEPT ![p].pc = "done", ![p].status = 200]
    /\ UNCHANGED <<now, rl, blacklistDb, refreshDb, userCall>>
    /\ UNCHANGED <<gateVars, rateVars, sessVars, jobVars, codecVars, concVars>>
    /\ UNCHANGED extVars

\* the response has left; the worker takes the next registration
RegFinish ==
    /\ \E p \in RegProcs :
         /\ reg[p].pc = "done"
         /\ reg' = [reg EXCEPT ![p] = NoReg[p]]
    /\ UNCHANGED <<now, rl, blacklistDb, refreshDb, users, userCall>>
    /\ UNCHANGED <<gateVars, rateVars, sessVars, jobVars, codecVars, concVars>>
    /\ UNCHANGED extVars

\* ---- token codec round trip (SpecCodec) --------------------------------
\* tokens issued in a run of the round trip
MaxMinted == 1

\* lifetimes, in seconds, a token is issued with
Ttls == 1..(AccessTtl + 1)

NoCodecCall == [tok |-> 0 - 1, res |-> NoPayload]

\* the four claims of a payload
Claims(payload) ==
    [sub |-> payload.sub, user_id |-> payload.user_id, role |-> payload.role,
     jti |-> payload.jti]

\* create_access_token(data, expires_delta) with a fresh jti; minted keeps
\* the claims handed in, the time and the lifetime
CodecIssue ==
    /\ Len(minted) < MaxMinted
    /\ Len(issued) < MaxTokens
    /\ \E sub \in Users, uid \in Users, ttl \in Ttls :
         LET data == [sub |-> sub, user_id |-> uid, role |-> Role(uid),
                      jti |-> Len(issued) + 1]
         IN  /\ issued' = Append(issued, CreateAccessToken(data, now, ttl))
             /\ minted' = Append(minted, [claims |-> data, at |-> now, ttl |-> ttl])
    /\ codecCall' = NoCodecCall
    /\ UNCHANGED <<now, rl, blacklistDb, refreshDb, loggedOut, req>>
    /\ UNCHANGED <<rateVars, sessVars, jobVars, userVars, concVars>>
    /\ UNCHANGED extVars

\* verify_token(token) at the current time, for a token with a bad
\* signature (0) or one that was issued
CodecVerify ==
    /\ \E tok \in 0..Len(issued) :
         codecCall' = [tok |-> tok, res |-> VerifyToken(tok, now, issued)]
    /\ UNCHANGED <<now, rl, issued, blacklistDb, refreshDb, loggedOut, req, minted>>
    /\ UNCHANGED <<rateVars, sessVars, jobVars, userVars, concVars>>
    /\ UNCHANGED extVars

\* time passes; the result of the last verification belongs to the past
CodecTick ==
    /\ now < MaxTime
    /\ now' = now + 1
    /\ codecCall' = NoCodecCall
    /\ UNCHANGED <<rl, issued, blacklistDb, refreshDb, loggedOut, req, minted>>
    /\ UNCHANGED <<rateVars, sessVars, jobVars, userVars, concVars>>
    /\ UNCHANGED extVars

\* ---- concurrent check_rate_limit (SpecRateConc) ------------------------
\* the calls that can be in flight at once for the one identifier
RcProcs == 1..(Limit + 1)

NoRc ==
    [p \in RcProcs |-> [pc |-> "idle", count |-> 0, allowed |-> FALSE]]

\* check_rate_limit is entered: connect, client.time()
RcStart ==
    /\ \E p \in RcProcs :
         /\ rc[p].pc = "idle"
         /\ rl.count <= Limit
         /\ rc' = [rc EXCEPT ![p] = [NoRc[p] EXCEPT !.pc = "exists"]]
    /\ UNCHANGED <<now, rl, blacklistDb, refreshDb, rcAllowed>>
    /\ UNCHANGED <<gateVars, rateVars, sessVars, jobVars, userVars, codecVars>>
    /\ UNCHANGED extVars

\* exists = await client.exists(key): the branch is chosen here
RcExists ==
    /\ \E p \in RcProcs :
         /\ rc[p].pc = "exists"
         /\ rc' = [rc EXCEPT ![p].pc = IF RlExists(rl) THEN "incr" ELSE "setex"]
    /\ UNCHANGED <<now, rl, blacklistDb, refreshDb, rcAllowed>>
    /\ UNCHANGED <<gateVars, rateVars, sessVars, jobVars, userVars, codecVars>>
    /\ UNCHANGED extVars

\* await client.setex(key, window, "1") and the return of allowed = True;
\* whatever the key holds by now is overwritten
RcSetex ==
    /\ \E p \in RcProcs :
         /\ rc[p].pc = "setex"
         /\ rl' = [count |-> 1, expiry |-> now + Window * TicksPerSec]
         /\ rc' = [rc EXCEPT ![p].pc = "done", ![p].count = 1, ![p].allowed = TRUE]
         /\ rcAllowed' = rcAllowed + 1
    /\ UNCHANGED <<now, blacklistDb, refreshDb>>
    /\ UNCHANGED <<gateVars, rateVars, sessVars, jobVars, userVars, codecVars>>
    /\ UNCHANGED extVars

\* count = await client.incr(key); INCR of a key that has expired since
\* the exists call creates it with value 1 and no expiry.  The comparison
\* with limit is settled by count, so the call is counted as allowed here.
RcIncr ==
    /\ \E p \in RcProcs :
         /\ rc[p].pc = "incr"
         /\ LET k == IF RlExists(rl) THEN [rl EXCEPT !.count = @ + 1]
                     ELSE [count |-> 1, expiry |-> NoExpiry]
            IN  /\ rl' = k
                /\ rc' = [rc EXCEPT ![p].pc = "ttl", ![p].count = k.count]
                /\ rcAllowed' = IF Denied(k.count, Limit) THEN rcAllowed
                                ELSE rcAllowed + 1
    /\ UNCHANGED <<now, blacklistDb, refreshDb>>
    /\ UNCHANGED <<gateVars, rateVars, sessVars, jobVars, userVars, codecVars>>
    /\ UNCHANGED extVars

\* ttl = await client.ttl(key) and the return: allowed unless count > limit
RcTtl ==
    /\ \E p \in RcProcs :
         /\ rc[p].pc = "ttl"
         /\ rc' = [rc EXCEPT ![p].pc = "done",
                              ![p].allowed = ~Denied(rc[p].count, Limit)]
    /\ UNCHANGED <<now, rl, blacklistDb, refreshDb, rcAllowed>>
    /\ UNCHANGED <<gateVars, rateVars, sessVars, jobVars, userVars, codecVars>>
    /\ UNCHANGED extVars

\* the caller has the result
RcReturn ==
    /\ \E p \in RcProcs :
         /\ rc[p].pc = "done"
         /\ rc' = [rc EXCEPT ![p] = NoRc[p]]
    /\ UNCHANGED <<now, rl, blacklistDb, refreshDb, rcAllowed>>
    /\ UNCHANGED <<gateVars, rateVars, sessVars, jobVars, userVars, codecVars>>
    /\ UNCHANGED extVars

\* time passes; Redis drops the counter when its TTL is over and the next
\* counter starts with no call allowed yet
RcTick ==
    /\ now < MaxTime
    /\ now' = now + 1
    /\ rl' = RlExpire(rl, now + 1)
    /\ rcAllowed' = IF RlExpire(rl, now + 1) = RlAbsent THEN 0 ELSE rcAllowed
    /\ UNCHANGED <<rc, blacklistDb, refreshDb>>
    /\ UNCHANGED <<gateVars, rateVars, sessVars, jobVars, userVars, codecVars>>
    /\ UNCHANGED extVars

\* ---- concurrent refresh-token exchange (SpecRefresh) -------------------
\* the POST /auth/refresh requests that can be in flight at once
RfProcs == 1..2

NoRf == [p \in RfProcs |-> [pc |-> "idle", tok |-> 0, user |-> NoUser, status |-> 0]]

\* POST /auth/login served for user u: a token pair is issued
RfLogin ==
    /\ Len(refreshDb) < MaxTokens
    /\ \A p \in RfProcs : rf[p].pc = "idle"
    /\ \E u \in Users : GenerateTokens(u)
    /\ UNCHANGED <<now, rl, blacklistDb, loggedOut, req, rf>>
    /\ UNCHANGED <<rateVars, sessVars, jobVars, userVars, codecVars, concVars>>
    /\ UNCHANGED <<authCall, updCall, burst, allowedAt, emb>>

\* a request presents refresh token tok (0: a token never issued)
RfStart ==
    /\ \E p \in RfProcs, tok \in 0..Len(refreshDb) :
         /\ rf[p].pc = "idle"
         /\ rf' = [rf EXCEPT ![p] = [NoRf[p] EXCEPT !.pc = "validate", !.tok = tok]]
    /\ UNCHANGED <<now, rl, blacklistDb, refreshDb>>
    /\ UNCHANGED <<gateVars, rateVars, sessVars, jobVars, userVars, codecVars, concVars>>
    /\ UNCHANGED <<authCall, updCall, burst, allowedAt, emb>>

\* refresh_token: validate_refresh_token, 401 when it returns nothing
RfValidate ==
    /\ \E p \in RfProcs :
         /\ rf[p].pc = "validate"
         /\ LET u == AuthValidateRefreshToken(refreshDb, rf[p].tok, now) IN
            rf' = IF u = NoUser
                  THEN [rf EXCEPT ![p].pc = "done", ![p].status = 401]
                  ELSE [rf EXCEPT ![p].pc = "generate", ![p].user = u]
    /\ UNCHANGED <<now, rl, blacklistDb, refreshDb>>
    /\ UNCHANGED <<gateVars, rateVars, sessVars, jobVars, userVars, codecVars, concVars>>
    /\ UNCHANGED <<authCall, updCall, burst, allowedAt, emb>>

\* refresh_token: get_user_by_id, 404 when the row is gone, then
\* generate_tokens
RfGenerate ==
    /\ \E p \in RfProcs :
         /\ rf[p].pc = "generate"
         /\ IF GetUserById(users, rf[p].user) = {}
            THEN /\ rf' = [rf EXCEPT ![p].pc = "done", ![p].status = 404]
                 /\ UNCHANGED <<issued, refreshDb>>
            ELSE /\ GenerateTokens(rf[p].user)
                 /\ rf' = [rf EXCEPT ![p].pc = "revoke"]
    /\ UNCHANGED <<now, rl, blacklistDb, loggedOut, req>>
    /\ UNCHANGED <<rateVars, sessVars, jobVars, userVars, codecVars, concVars>>
    /\ UNCHANGED <<authCall, updCall, burst, allowedAt, emb>>

\* refresh_token: revoke_refresh_token of the presented token and the
\* TokenResponse
RfRevoke ==
    /\ \E p \in RfProcs :
         /\ rf[p].pc = "revoke"
         /\ refreshDb' = AuthRevokeRefreshToken(refreshDb, rf[p].tok)
         /\ rf' = [rf EXCEPT ![p].pc = "done", ![p].status = 200]
    /\ UNCHANGED <<now, rl, blacklistDb>>
    /\ UNCHANGED <<gateVars, rateVars, sessVars, jobVars, userVars, codecVars, concVars>>
    /\ UNCHANGED <<authCall, updCall, burst, allowedAt, emb>>

\* ---- deactivated users and token issuance (SpecDeactivate) -------------
NoAuthCall ==
    [op |-> "none", user |-> NoUser, active |-> FALSE, status |-> 0, minted |-> FALSE]

RootIdentity == [id |-> "root", role |-> Role("root"), sub |-> "root"]

\* is_active of the row with this id; FALSE when there is no such row
IsActive(us, id) == \E u \in GetUserById(us, id) : u.is_active

\* UserService.authenticate_user(username, password): 401 for an unknown
\* username or a wrong password, 404 for an inactive user, else the user
UserServiceAuthenticateUser(us, username, pwOk) ==
    IF ~UsernameTaken(us, username) \/ ~pwOk THEN 401
    ELSE IF \E u \in us : u.username = username /\ ~u.is_active THEN 404
    ELSE 200

\* AuthController.login with the username and password of a request
DeLogin ==
    /\ Len(refreshDb) < MaxTokens
    /\ \E u \in Users, pwOk \in BOOLEAN :
         LET code == UserServiceAuthenticateUser(users, u, pwOk) IN
         /\ IF code = 200 THEN GenerateTokens(u) ELSE UNCHANGED <<issued, refreshDb>>
         /\ authCall' = [op |-> "login", user |-> u, active |-> IsActive(users, u),
                         status |-> code, minted |-> code = 200]
    /\ UNCHANGED <<now, rl, blacklistDb, loggedOut, req, rf>>
    /\ UNCHANGED <<rateVars, sessVars, jobVars, userVars, codecVars, concVars>>
    /\ UNCHANGED <<updCall, burst, allowedAt, emb>>

\* AuthController.refresh_token, one call at a time: validate, load the
\* user (is_active is not looked at), generate, revoke
DeRefresh ==
    /\ Len(refreshDb) < MaxTokens
    /\ \E tok \in 0..Len(refreshDb) :
         LET u == AuthValidateRefreshToken(refreshDb, tok, now) IN
         IF u = NoUser \/ GetUserById(users, u) = {}
         THEN /\ UNCHANGED <<issued, refreshDb>>
              /\ authCall' = [op |-> "refresh", user |-> u, active |-> FALSE,
                              status |-> IF u = NoUser THEN 401 ELSE 404,
                              minted |-> FALSE]
         ELSE /\ issued' = Append(issued,
                                  CreateAccessToken(AccessData(Len(issued) + 1, u, Role(u)),
                                                    now, AccessTtl))
              /\ refreshDb' = AuthRevokeRefreshToken(
                                  AuthCreateRefreshToken(refreshDb, u, now), tok)
              /\ authCall' = [op |-> "refresh", user |-> u,
                              active |-> IsActive(users, u),
                              status |-> 200, minted |-> TRUE]
    /\ UNCHANGED <<now, rl, blacklistDb, loggedOut, req, rf>>
    /\ UNCHANGED <<rateVars, sessVars, jobVars, userVars, codecVars, concVars>>
    /\ UNCHANGED <<updCall, burst, allowedAt, emb>>

\* UserController.delete_user called by the admin
DeDeleteUser ==
    /\ \E id \in Users :
         /\ users' = UserControllerDeleteUser(users, RootIdentity, id).users
         /\ authCall' = [NoAuthCall EXCEPT !.op = "delete_user", !.user = id,
                           !.status = UserControllerDeleteUser(users, RootIdentity, id).status]
    /\ UNCHANGED <<now, rl, blacklistDb, refreshDb, userCall, reg, rf>>
    /\ UNCHANGED <<gateVars, rateVars, sessVars, jobVars, codecVars, concVars>>
    /\ UNCHANGED <<updCall, burst, allowedAt, emb>>

\* UserController.activate_user called by the admin
DeActivateUser ==
    /\ \E id \in Users :
         /\ users' = UserControllerActivateUser(users, RootIdentity, id).users
         /\ authCall' = [NoAuthCall EXCEPT !.op = "activate_user", !.user = id,
                           !.status = UserControllerActivateUser(users, RootIdentity, id).status]
    /\ UNCHANGED <<now, rl, blacklistDb, refreshDb, userCall, reg, rf>>
    /\ UNCHANGED <<gateVars, rateVars, sessVars, jobVars, codecVars, concVars>>
    /\ UNCHANGED <<updCall, burst, allowedAt, emb>>

\* ---- user update through the routes (SpecUpdate) -----------------------
NoRow ==
    [id |-> NoUser, username |-> "none", email |-> "none", full_name |-> "none",
     is_active |-> FALSE, role |-> "none"]

NoUpdCall ==
    [route |-> "none", body |-> [full_name |-> Unset, email |-> Unset],
     before |-> NoRow, after |-> NoRow, status |-> 0]

\* the row with this id, NoRow when there is none
RowOf(us, id) == IF GetUserById(us, id) = {} THEN NoRow
                 ELSE CHOOSE u \in GetUserById(us, id) : TRUE

\* UserUpdateRequest(**user_update.model_dump()): model_dump() has every
\* field, None for those the body left out, and the new object counts them
\* all as set
DumpAndRebuild(body) ==
    [full_name |-> IF body.full_name = Unset THEN "none" ELSE body.full_name,
     email |-> IF body.email = Unset THEN "none" ELSE body.email]

\* PUT /users/{user_id}: the route rebuilds the body and calls the controller
UserRouteUpdateUser(us, ident, id, body) ==
    UserControllerUpdateUser(us, ident, id, DumpAndRebuild(body))

\* AuthController.update_current_user(user_update, request), behind
\* PUT /auth/me: the body goes to the service as it came
AuthControllerUpdateCurrentUser(us, ident, body) ==
    IF ident = NoIdentity THEN Refused(us, 401)
    ELSE UserServiceUpdateUser(us, ident.id, body)

NoteUpdCall(route, id, body, r) ==
    /\ users' = r.users
    /\ updCall' = [route |-> route, body |-> body, before |-> RowOf(users, id),
                   after |-> RowOf(r.users, id), status |-> r.status]

CallRouteUpdateUser ==
    /\ \E ident \in Identities, id \in TargetIds :
         \E fn \in FullNames, em \in Emails :
           NoteUpdCall("users", id, [full_name |-> fn, email |-> em],
                       UserRouteUpdateUser(users, ident, id,
                                           [full_name |-> fn, email |-> em]))
    /\ UNCHANGED <<now, rl, blacklistDb, refreshDb, userCall, reg, rf, authCall>>
    /\ UNCHANGED <<gateVars, rateVars, sessVars, jobVars, codecVars, concVars>>
    /\ UNCHANGED <<burst, allowedAt, emb>>

CallUpdateCurrentUser ==
    /\ \E ident \in Identities :
         \E fn \in FullNames, em \in Emails :
           NoteUpdCall("me", ident.id, [full_name |-> fn, email |-> em],
                       AuthControllerUpdateCurrentUser(users, ident,
                                           [full_name |-> fn, email |-> em]))
    /\ UNCHANGED <<now, rl, blacklistDb, refreshDb, userCall, reg, rf, authCall>>
    /\ UNCHANGED <<gateVars, rateVars, sessVars, jobVars, codecVars, concVars>>
    /\ UNCHANGED <<burst, allowedAt, emb>>

\* ---- requests of one client, one at a time (SpecBurst) -----------------
NoBurst == [pc |-> "idle", branch |-> "none"]

NoAllowedAt == [t \in 0..MaxTime |-> 0]

\* the calls allowed at the ticks a..b
RECURSIVE AllowedIn(_, _, _)
AllowedIn(at, a, b) ==
    IF a > b \/ a \notin DOMAIN at THEN 0 ELSE at[a] + AllowedIn(at, a + 1, b)

\* check_rate_limit as far as its EXISTS call, the store being available
BurstExists ==
    /\ burst.pc = "idle"
    /\ rl.count <= Limit
    /\ burst' = [pc |-> "called", branch |-> IF RlExists(rl) THEN "incr" ELSE "setex"]
    /\ UNCHANGED <<now, rl, blacklistDb, refreshDb, rf, authCall, updCall, allowedAt>>
    /\ UNCHANGED <<gateVars, rateVars, sessVars, jobVars, userVars, codecVars, concVars, emb>>

\* the rest of check_rate_limit: SETEX, or INCR and TTL, and the result;
\* INCR of a key that expired after the EXISTS call creates it with value 1
\* and no expiry
BurstReturn ==
    /\ burst.pc = "called"
    /\ LET c == IF burst.branch = "setex"
                THEN CheckRateLimit(RlAbsent, now, Limit, Window, "none")
                ELSE IF RlExists(rl)
                THEN CheckRateLimit(rl, now, Limit, Window, "none")
                ELSE [key |-> [count |-> 1, expiry |-> NoExpiry], ok |-> TRUE,
                      res |-> [allowed |-> ~Denied(1, Limit), remaining |-> Limit,
                               reset |-> NowSec(now) + NoExpiry]]
       IN  /\ rl' = c.key
           /\ allowedAt' = IF c.res.allowed
                           THEN [allowedAt EXCEPT ![now] = @ + 1] ELSE allowedAt
    /\ burst' = NoBurst
    /\ UNCHANGED <<now, blacklistDb, refreshDb, rf, authCall, updCall>>
    /\ UNCHANGED <<gateVars, rateVars, sessVars, jobVars, userVars, codecVars, concVars, emb>>

\* time passes, also in the middle of a call; Redis drops the counter when
\* its TTL is over
BurstTick ==
    /\ now < MaxTime
    /\ now' = now + 1
    /\ rl' = RlExpire(rl, now + 1)
    /\ UNCHANGED <<blacklistDb, refreshDb, rf, authCall, updCall, burst, allowedAt>>
    /\ UNCHANGED <<gateVars, rateVars, sessVars, jobVars, userVars, codecVars, concVars, emb>>

\* ---- the embedding task of a job (SpecEmbedding) -----------------------
MaxEmbUpdates == 1

EmbJobs == 1..MaxJobs

NoJobRow == [present |-> FALSE, version |-> 0, embedding_status |-> "pending",
             qdrant_point_id |-> "none", error_message |-> "none"]

NoTask == [pc |-> "idle", version |-> 0, genOk |-> FALSE, upsert |-> "none",
           embedding_status |-> "pending", qdrant_point_id |-> "none",
           error_message |-> "none"]

NoLast == [done |-> FALSE, genOk |-> FALSE, upsert |-> "none",
           embedding_status |-> "pending", error_message |-> "none"]

NoEmb == [rows |-> [j \in EmbJobs |-> NoJobRow],
          sched |-> [j \in EmbJobs |-> 0],
          run |-> [j \in EmbJobs |-> NoTask],
          store |-> [j \in EmbJobs |-> 0],
          last |-> [j \in EmbJobs |-> NoLast],
          updates |-> [j \in EmbJobs |-> 0]]

\* what the vector store does to an upsert: "ok", "upsert_fails" (the
\* collection check or client.upsert raises) or "connect_fails"
UpsertOutcomes == {"ok", "upsert_fails", "connect_fails"}

\* index_job: the upsert inside try, True after it, False from the except
IndexJob(store, j, version, outcome) ==
    IF outcome = "ok"
    THEN [store |-> [store EXCEPT ![j] = version], ret |-> TRUE]
    ELSE [store |-> store, ret |-> FALSE]

\* upsert_job_vector: connect(), which is outside any try, then index_job
UpsertJobVector(store, j, version, outcome) ==
    IF outcome = "connect_fails"
    THEN [store |-> store, ret |-> FALSE, raised |-> TRUE]
    ELSE IndexJob(store, j, version, outcome) @@ [raised |-> FALSE]

\* create_job: the row is committed with embedding_status pending and the
\* task is scheduled
EmbCreateJob ==
    /\ \E j \in EmbJobs :
         /\ ~emb.rows[j].present
         /\ emb' = [emb EXCEPT !.rows[j] = [NoJobRow EXCEPT !.present = TRUE,
                                                            !.version = 1],
                               !.sched[j] = @ + 1]
    /\ UNCHANGED <<now, rl, blacklistDb, refreshDb, rf, authCall, updCall>>
    /\ UNCHANGED <<burst, allowedAt>>
    /\ UNCHANGED <<gateVars, rateVars, sessVars, jobVars, userVars, codecVars, concVars>>

\* update_job with a field the vector depends on: pending again, and
\* another task
EmbUpdateJob ==
    /\ \E j \in EmbJobs :
         /\ emb.rows[j].present
         /\ emb.updates[j] < MaxEmbUpdates
         /\ emb' = [emb EXCEPT !.rows[j].version = @ + 1,
                               !.rows[j].embedding_status = "pending",
                               !.sched[j] = @ + 1,
                               !.updates[j] = @ + 1]
    /\ UNCHANGED <<now, rl, blacklistDb, refreshDb, rf, authCall, updCall>>
    /\ UNCHANGED <<burst, allowedAt>>
    /\ UNCHANGED <<gateVars, rateVars, sessVars, jobVars, userVars, codecVars, concVars>>

\* process_job_embedding_task, step 1: the job is read from the database
EmbFetch ==
    /\ \E j \in EmbJobs :
         /\ emb.sched[j] > 0
         /\ emb.run[j].pc = "idle"
         /\ emb.rows[j].present
         /\ emb' = [emb EXCEPT !.sched[j] = @ - 1,
                               !.run[j] = [NoTask EXCEPT
                                   !.pc = "fetched",
                                   !.version = emb.rows[j].version,
                                   !.embedding_status = emb.rows[j].embedding_status,
                                   !.qdrant_point_id = emb.rows[j].qdrant_point_id,
                                   !.error_message = emb.rows[j].error_message]]
    /\ UNCHANGED <<now, rl, blacklistDb, refreshDb, rf, authCall, updCall>>
    /\ UNCHANGED <<burst, allowedAt>>
    /\ UNCHANGED <<gateVars, rateVars, sessVars, jobVars, userVars, codecVars, concVars>>

\* step 2: generate_job_embedding returns a vector or raises; raising
\* leads to the except branch
EmbGenerate ==
    /\ \E j \in EmbJobs, ok \in BOOLEAN :
         /\ emb.run[j].pc = "fetched"
         /\ emb' = [emb EXCEPT !.run[j] =
                IF ok THEN [@ EXCEPT !.pc = "generated", !.genOk = TRUE]
                ELSE [@ EXCEPT !.pc = "commit", !.genOk = FALSE,
                               !.embedding_status = "failed",
                               !.error_message = "msg"]]
    /\ UNCHANGED <<now, rl, blacklistDb, refreshDb, rf, authCall, updCall>>
    /\ UNCHANGED <<burst, allowedAt>>
    /\ UNCHANGED <<gateVars, rateVars, sessVars, jobVars, userVars, codecVars, concVars>>

\* steps 3 to 5: upsert_job_vector is awaited and its result dropped; then
\* completed, or failed from the except branch if it raised
EmbUpsert ==
    /\ \E j \in EmbJobs, outcome \in UpsertOutcomes :
         /\ emb.run[j].pc = "generated"
         /\ LET u == UpsertJobVector(emb.store, j, emb.run[j].version, outcome)
            IN  emb' = [emb EXCEPT
                    !.store = u.store,
                    !.run[j] = IF u.raised
                               THEN [@ EXCEPT !.pc = "commit", !.upsert = outcome,
                                              !.embedding_status = "failed",
                                              !.error_message = "msg"]
                               ELSE [@ EXCEPT !.pc = "commit", !.upsert = outcome,
                                              !.embedding_status = "completed",
                                              !.qdrant_point_id = "id",
                                              !.error_message = "none"]]
    /\ UNCHANGED <<now, rl, blacklistDb, refreshDb, rf, authCall, updCall>>
    /\ UNCHANGED <<burst, allowedAt>>
    /\ UNCHANGED <<gateVars, rateVars, sessVars, jobVars, userVars, codecVars, concVars>>

\* finally: session.add(job) and commit write the attributes the task set
EmbCommit ==
    /\ \E j \in EmbJobs :
         /\ emb.run[j].pc = "commit"
         /\ emb' = [emb EXCEPT
                !.rows[j].embedding_status = emb.run[j].embedding_status,
                !.rows[j].qdrant_point_id = emb.run[j].qdrant_point_id,
                !.rows[j].error_message = emb.run[j].error_message,
                !.last[j] = [done |-> TRUE, genOk |-> emb.run[j].genOk,
                             upsert |-> emb.run[j].upsert,
                             embedding_status |-> emb.run[j].embedding_status,
                             error_message |-> emb.run[j].error_message],
                !.run[j] = NoTask]
    /\ UNCHANGED <<now, rl, blacklistDb, refreshDb, rf, authCall, updCall>>
    /\ UNCHANGED <<burst, allowedAt>>
    /\ UNCHANGED <<gateVars, rateVars, sessVars, jobVars, userVars, codecVars, concVars>>

Init ==
    /\ now = 0
    /\ rl = RlAbsent
    /\ win = [calls |-> 0, clean |-> TRUE]
    /\ rlCall = NoRlCall
    /\ issued = <<>>
    /\ blacklistDb = {}
    /\ refreshDb = <<>>
    /\ loggedOut = {}
    /\ req = Idle
    /\ redisBlacklist = <<>>
    /\ redisRefresh = <<>>
    /\ hist = NoHist
    /\ lastCall = NoCall
    /\ jobs = <<>>
    /\ jobCall = NoJobCall
    /\ users = SeedUsers
    /\ userCall = NoUserCall
    /\ reg = NoReg
    /\ minted = <<>>
    /\ codecCall = NoCodecCall
    /\ rc = NoRc
    /\ rcAllowed = 0
    /\ rf = NoRf
    /\ authCall = NoAuthCall
    /\ updCall = NoUpdCall
    /\ burst = NoBurst
    /\ allowedAt = NoAllowedAt
    /\ emb = NoEmb

Next ==
    \/ StartRequest
    \/ RateLimitCheck
    \/ Gate
    \/ Login
    \/ Logout
    \/ Refresh
    \/ GetCurrentUser
    \/ Root
    \/ AddHeaders
    \/ ExceptCallNext
    \/ ServerError
    \/ Finish
    \/ Tick

Spec == Init /\ [][Next]_vars

\* the direct calls go to the one backend the deployment was set up with
InitSession ==
    /\ now = 0
    /\ rl = RlAbsent
    /\ win = [calls |-> 0, clean |-> TRUE]
    /\ rlCall = NoRlCall
    /\ issued = <<>>
    /\ blacklistDb = {}
    /\ refreshDb = <<>>
    /\ loggedOut = {}
    /\ req = Idle
    /\ redisBlacklist = <<>>
    /\ redisRefresh = <<>>
    /\ hist \in {[NoHist EXCEPT !.backend = b] : b \in {"sql", "kv"}}
    /\ lastCall = NoCall
    /\ jobs = <<>>
    /\ jobCall = NoJobCall
    /\ users = SeedUsers
    /\ userCall = NoUserCall
    /\ reg = NoReg
    /\ minted = <<>>
    /\ codecCall = NoCodecCall
    /\ rc = NoRc
    /\ rcAllowed = 0
    /\ rf = NoRf
    /\ authCall = NoAuthCall
    /\ updCall = NoUpdCall
    /\ burst = NoBurst
    /\ allowedAt = NoAllowedAt
    /\ emb = NoEmb

NextRate ==
    \/ RateCall
    \/ RateTick

SpecRate == Init /\ [][NextRate]_vars

NextSession ==
    \/ SessCreate
    \/ SessValidate
    \/ SessRevoke
    \/ KvCreate
    \/ KvValidate
    \/ KvRevoke
    \/ SessTick

SpecSession == InitSession /\ [][NextSession]_vars

NextJobs ==
    \/ ServiceCreateJob
    \/ ServiceUpdateJob
    \/ ServiceDeleteJob
    \/ ControllerUpdateJob
    \/ ControllerDeleteJob
    \/ RouteUpdateJob
    \/ RouteDeleteJob

SpecJobs == Init /\ [][NextJobs]_vars

NextBlacklist ==
    \/ SessBlacklist
    \/ SessIsBlacklisted
    \/ KvBlacklist
    \/ KvIsBlacklisted
    \/ SessTick

SpecBlacklist == InitSession /\ [][NextBlacklist]_vars

NextUsers ==
    \/ CallGetUserById
    \/ CallGetAllUsers
    \/ CallUpdateUser
    \/ CallDeleteUser
    \/ CallActivateUser

SpecUsers == Init /\ [][NextUsers]_vars

NextRegister ==
    \/ RegStart
    \/ RegCheckEmail
    \/ RegCheckUsername
    \/ RegCommit
    \/ RegFinish

SpecRegister == Init /\ [][NextRegister]_vars

NextCodec ==
    \/ CodecIssue
    \/ CodecVerify
    \/ CodecTick

SpecCodec == Init /\ [][NextCodec]_vars

NextRateConc ==
    \/ RcStart
    \/ RcExists
    \/ RcSetex
    \/ RcIncr
    \/ RcTtl
    \/ RcReturn
    \/ RcTick

SpecRateConc == Init /\ [][NextRateConc]_vars

NextRefresh ==
    \/ RfLogin
    \/ RfStart
    \/ RfValidate
    \/ RfGenerate
    \/ RfRevoke

SpecRefresh == Init /\ [][NextRefresh]_vars

NextDeactivate ==
    \/ DeLogin
    \/ DeRefresh
    \/ DeDeleteUser
    \/ DeActivateUser

SpecDeactivate == Init /\ [][NextDeactivate]_vars

NextUpdate ==
    \/ CallRouteUpdateUser
    \/ CallUpdateCurrentUser

SpecUpdate == Init /\ [][NextUpdate]_vars

NextBurst ==
    \/ BurstExists
    \/ BurstReturn
    \/ BurstTick

SpecBurst == Init /\ [][NextBurst]_vars

NextEmbedding ==
    \/ EmbCreateJob
    \/ EmbUpdateJob
    \/ EmbFetch
    \/ EmbGenerate
    \/ EmbUpsert
    \/ EmbCommit

SpecEmbedding == Init /\ [][NextEmbedding]_vars

\* C3: in a window that began with no counter and in which no store call
\* failed, the n-th call of check_rate_limit is allowed exactly when
\* n <= limit, and a denied call reports remaining = 0
C3_FirstLimitAllowedThenDenied ==
    (rlCall.ok /\ rlCall.clean) =>
        /\ rlCall.res.allowed <=> rlCall.seq <= Limit
        /\ rlCall.seq > Limit => rlCall.res.remaining = 0

\* the (limit+1)-th call of a window has been denied
C3_Witness ==
    rlCall.ok /\ rlCall.clean /\ rlCall.seq = Limit + 1 /\ ~rlCall.res.allowed

\* C8: on either backend validate_refresh_token(t) returns the owner u
\* exactly when t came from create_refresh_token(u), was not revoked and
\* has not reached its expiry; it returns none otherwise, also for a token
\* that was never created, and a token once seen invalid stays invalid
C8_ValidateExactlyWhileActive ==
    /\ \A k \in 1..Len(hist.sqlMade) :
         AuthValidateRefreshToken(refreshDb, k, now) =
            IF k \notin hist.sqlRevoked
               /\ now < hist.sqlMade[k].at + RefreshTtl * TicksPerSec
            THEN hist.sqlMade[k].user ELSE NoUser
    /\ \A k \in 1..Len(hist.kvMade) :
         RedisValidateRefreshToken(redisRefresh, k) =
            IF k \notin hist.kvRevoked
               /\ now < hist.kvMade[k].at + RefreshTtl * TicksPerSec
            THEN hist.kvMade[k].user ELSE NoUser
    /\ \A k \in {0, Len(hist.sqlMade) + 1} :
         AuthValidateRefreshToken(refreshDb, k, now) = NoUser
    /\ \A k \in {0, Len(hist.kvMade) + 1} :
         RedisValidateRefreshToken(redisRefresh, k) = NoUser
    /\ \A k \in hist.sqlDead : AuthValidateRefreshToken(refreshDb, k, now) = NoUser
    /\ \A k \in hist.kvDead : RedisValidateRefreshToken(redisRefresh, k) = NoUser

\* a validate call has answered none for a revoked token while another
\* token of the same backend has expired unrevoked
C8_Witness ==
    \/ /\ lastCall.op = "validate" /\ lastCall.result = NoUser
       /\ lastCall.tok \in hist.sqlRevoked
       /\ \E k \in 1..Len(hist.sqlMade) :
            k \notin hist.sqlRevoked /\ k \in hist.sqlDead
    \/ /\ lastCall.op = "kvvalidate" /\ lastCall.result = NoUser
       /\ lastCall.tok \in hist.kvRevoked
       /\ \E k \in 1..Len(hist.kvMade) :
            k \notin hist.kvRevoked /\ k \in hist.kvDead

\* C9: a jti whose blacklisting succeeded is reported blacklisted at every
\* moment before the expiry of its token, and a jti never blacklisted is
\* reported not blacklisted
C9_BlacklistedUntilExpiry ==
    /\ \A j \in hist.sqlBl :
         now < hist.tokExp[j] => AuthIsTokenBlacklisted(blacklistDb, j)
    /\ \A j \in hist.kvBl :
         now < hist.tokExp[j] => RedisIsTokenBlacklisted(redisBlacklist, j)
    /\ \A j \in (1..MaxSessTokens) \ hist.sqlBl : ~AuthIsTokenBlacklisted(blacklistDb, j)
    /\ \A j \in (1..MaxSessTokens) \ hist.kvBl : ~RedisIsTokenBlacklisted(redisBlacklist, j)

\* C10: update_job and delete_job called with an identity on an existing
\* job succeed exactly when the identity is the creator of the job or an
\* admin; any other identity gets 403 and the job table is unchanged
C10_CreatorOrAdminMayMutate ==
    (jobCall.op \in {"update", "delete"} /\ jobCall.by # NoUser) =>
        IF jobCall.by = jobCall.owner \/ Role(jobCall.by) = "admin"
        THEN jobCall.status = 200
        ELSE jobCall.status = 403 /\ ~jobCall.changed

\* C1: a request that starts after POST /auth/logout succeeded for the
\* token it bears never reaches a route handler while the token is
\* unexpired, and is answered 401 by the gate (500 when the blacklist
\* lookup itself fails)
C1_LoggedOutTokenRejected ==
    (req.later /\ now < issued[req.hdr.tok].exp) =>
        /\ req.handlerCalls = 0
        /\ req.pc = "done" =>
             \/ req.status = 401
             \/ req.status = 500 /\ req.lookupFailed

\* a request bearing a logged-out, unexpired token has been answered 401
C1_Witness ==
    /\ req.later /\ now < issued[req.hdr.tok].exp
    /\ req.pc = "done" /\ req.status = 401 /\ req.gateCalls >= 1

\* C2: a request that finds limit requests already counted in the window
\* is answered 429 with Retry-After >= 1 and is not passed downstream
C2_OverLimitAnswered429 ==
    (req.pc = "done" /\ ~req.rlFailed /\ req.prior >= Limit) =>
        /\ req.status = 429
        /\ req.retryAfter >= 1
        /\ req.gateCalls = 0 /\ req.handlerCalls = 0

\* C4: a request whose bearer token fails verification is answered 401 by
\* the gate and reaches no route handler
C4_BadTokenRejected ==
    req.verifyFailed =>
        /\ req.handlerCalls = 0
        /\ req.pc = "done" => req.status = 401

\* C5: a request whose blacklist lookup failed is answered with a server
\* error, and an identity is attached only after a lookup that completed
C5_LookupFailureIsServerError ==
    /\ (req.lookupFailed /\ req.pc = "done") => req.status >= 500
    /\ HasIdentity(req) => req.lookupOk

\* C6: when check_rate_limit raises, the request is passed downstream once
\* and the response that comes back keeps its status and carries limit,
\* remaining = limit - 1, reset and window
C6_FailOpenForwards ==
    (req.rlFailed /\ req.pc = "done") =>
        /\ req.gateCalls = 1
        /\ req.down = "response" =>
             /\ req.status = req.dstatus
             /\ req.hdrs = [limit |-> Limit, remaining |-> Limit - 1,
                            reset |-> NowSec(now) + Window, window |-> Window]

\* a request was served 200 by its handler although the rate-limit store
\* was down
C6_Witness ==
    /\ req.rlFailed /\ req.pc = "done"
    /\ req.status = 200 /\ req.handlerCalls = 1
    /\ req.hdrs.remaining = Limit - 1

\* C7: after a successful logout the refresh token issued with the
\* logged-out access token no longer validates
C7_LogoutDestroysRefreshToken ==
    \A jti \in loggedOut :
        AuthValidateRefreshToken(refreshDb, PairedRefreshToken(jti), now) = NoUser

\* C11: delete_user called by an admin on its own id is answered 400, not
\* 403, and leaves the table, the target's is_active included, as it was
C11_SelfDeleteRejected ==
    (/\ userCall.op = "delete_user"
     /\ userCall.by # NoIdentity
     /\ userCall.by.role = "admin"
     /\ userCall.by.id = userCall.target) =>
        /\ userCall.status = 400
        /\ ~userCall.changed
        /\ \A u \in GetUserById(users, userCall.target) : u.is_active

\* the admin asked to delete its own account after it had deactivated
\* another one
C11_Witness ==
    /\ userCall.op = "delete_user"
    /\ userCall.by.id = "root" /\ userCall.target = "root"
    /\ userCall.status = 400
    /\ \E u \in users : ~u.is_active

\* C12: get_user_by_id and update_user pass the permission check exactly
\* when the caller is an admin or the target itself; any other identity
\* gets 403 and the target is neither read nor changed
C12_SelfOrAdmin ==
    (/\ userCall.op \in {"get_user_by_id", "update_user"}
     /\ userCall.by # NoIdentity) =>
        IF userCall.by.role = "admin" \/ userCall.by.id = userCall.target
        THEN userCall.status \notin {401, 403}
        ELSE userCall.status = 403 /\ ~userCall.read /\ ~userCall.changed

\* a user asked to update another user's record and was refused
C12_Witness ==
    /\ userCall.op = "update_user"
    /\ userCall.by.id = "alice" /\ userCall.target = "bob"
    /\ userCall.status = 403

\* C13: get_all_users, delete_user and activate_user answer 401 with no
\* identity and 403 with an identity that is not an admin, and in both
\* cases no row is read or written
C13_AdminOnly ==
    (userCall.op \in {"get_all_users", "delete_user", "activate_user"}) =>
        /\ userCall.by = NoIdentity =>
             userCall.status = 401 /\ ~userCall.read /\ ~userCall.changed
        /\ (userCall.by # NoIdentity /\ userCall.by.role # "admin") =>
             userCall.status = 403 /\ ~userCall.read /\ ~userCall.changed

\* a user who is not an admin asked to reactivate a deactivated account
C13_Witness ==
    /\ userCall.op = "activate_user"
    /\ userCall.by.id = "alice"
    /\ userCall.status = 403
    /\ \E u \in GetUserById(users, userCall.target) : ~u.is_active

\* C14: a protected job operation invoked with no identity attached, at
\* the controller or through its route, is answered 401 and leaves the
\* job table as it was
C14_NoIdentityIs401 ==
    (/\ jobCall.op \in {"update", "delete"}
     /\ jobCall.layer \in {"controller", "route"}
     /\ jobCall.by = NoUser) =>
        jobCall.status = 401 /\ ~jobCall.changed

C16_EveryResponseHasHeaders ==
    req.pc = "done" =>
        /\ req.hdrs # NoHeaders
        /\ req.hdrs.limit = Limit /\ req.hdrs.window = Window
        /\ req.retryAfter > 0 <=> req.status = 429

\* C17: an allowed call of check_rate_limit reports remaining = limit -
\* count, count being the calls counted in the window, this one included
C17_RemainingIsLimitMinusCount ==
    (rlCall.ok /\ rlCall.clean /\ rlCall.res.allowed) =>
        rlCall.res.remaining = Limit - rlCall.seq

\* C18: under any interleaving of register calls, a registration that ends
\* while its email or username is in the table and did not insert the row
\* itself is answered 409, and no two rows share an email or a username
C18_DuplicateIs409 ==
    /\ \A p \in RegProcs :
         (reg[p].pc = "done" /\ reg[p].taken) => reg[p].status = 409
    /\ \A u, v \in users :
         (u.email = v.email \/ u.username = v.username) => u = v

C20_AtMostLimitAllowed ==
    rcAllowed <= Limit

\* C21: a counter key that is present always has an expiry, no further
\* away than one window length
C21_CounterAlwaysExpires ==
    RlExists(rl) =>
        /\ rl.expiry # NoExpiry
        /\ rl.expiry - now <= Window * TicksPerSec

\* C22: under any interleaving of refresh requests, at most one request
\* that presented a given refresh token is answered with a new token pair,
\* and once one was, the presented token no longer validates
C22_RefreshExchangedOnce ==
    \A k \in 1..Len(refreshDb) :
        LET won == {p \in RfProcs : rf[p].pc = "done" /\ rf[p].status = 200
                                     /\ rf[p].tok = k}
        IN  /\ Cardinality(won) <= 1
            /\ won # {} => AuthValidateRefreshToken(refreshDb, k, now) = NoUser

\* C23: for one request RateLimitMiddleware calls call_next at most once,
\* also when the gate or the handler raises
C23_DownstreamInvokedOnce ==
    req.gateCalls <= 1 /\ req.handlerCalls <= 1

\* C24: while a user is deactivated neither login nor a refresh-token
\* exchange issues tokens for that user
C24_NoTokensWhileDeactivated ==
    (authCall.op \in {"login", "refresh"} /\ authCall.user # NoUser
     /\ ~authCall.active) => ~authCall.minted

\* C25: an identity attached to a request is the user_id, role and sub of
\* the bearer token of that request, the token was verified and its jti
\* looked up and found not blacklisted during the request, and the
\* identity stays what it is until the request ends
C25_IdentityIsTokenClaims ==
    /\ HasIdentity(req) =>
         /\ req.hdr.kind = "bearer" /\ req.hdr.tok \in 1..Len(issued)
         /\ req.user = [id |-> issued[req.hdr.tok].user_id,
                        role |-> issued[req.hdr.tok].role,
                        sub |-> issued[req.hdr.tok].sub]
         /\ req.lookupOk
    /\ req.pc = "idle" => ~HasIdentity(req)

\* on the pass that follows an exception of the handler, the handler is
\* about to run with the identity attached on the first pass, the token
\* having expired in between
C25_Witness ==
    /\ req.pc = "handler" /\ HasIdentity(req)
    /\ req.gateCalls = 2 /\ req.handlerCalls = 1
    /\ now >= issued[req.hdr.tok].exp

\* C26: blacklist_token called for the jti of a still valid token, also
\* one that is blacklisted already, succeeds and leaves exactly one entry
\* for the jti, which is_token_blacklisted reports
C26_BlacklistIdempotent ==
    /\ (lastCall.op = "blacklist" /\ now < hist.tokExp[lastCall.tok]) =>
         /\ lastCall.result = "ok"
         /\ Cardinality({row \in blacklistDb : row.jti = lastCall.tok}) = 1
         /\ AuthIsTokenBlacklisted(blacklistDb, lastCall.tok)
    /\ lastCall.op = "kvblacklist" => lastCall.result = "ok"

\* C27: a blacklist entry is gone from the store once its token has expired
\* and the floor of one second since its insertion is over
C27_EntryGoneAfterExpiry ==
    /\ \A j \in hist.sqlBl :
         AuthIsTokenBlacklisted(blacklistDb, j) =>
            now < Max(hist.tokExp[j], hist.blAt[j] + TicksPerSec)
    /\ \A j \in hist.kvBl :
         RedisIsTokenBlacklisted(redisBlacklist, j) =>
            now < Max(hist.tokExp[j], hist.blAt[j] + TicksPerSec)

\* C28: an update through PUT /users/{user_id} or PUT /auth/me leaves every
\* field of the row that the body did not supply as it was
C28_UnsuppliedFieldsUnchanged ==
    (updCall.route # "none") =>
        /\ updCall.body.full_name = Unset =>
              updCall.after.full_name = updCall.before.full_name
        /\ updCall.body.email = Unset =>
              updCall.after.email = updCall.before.email
        /\ updCall.after.id = updCall.before.id
        /\ updCall.after.username = updCall.before.username
        /\ updCall.after.is_active = updCall.before.is_active
        /\ updCall.after.role = updCall.before.role

\* C29: with the store available and one call at a time, no span of one
\* window length contains more than 2 * limit allowed calls
C29_AtMostTwiceLimitPerSpan ==
    \A a \in 0..MaxTime :
        AllowedIn(allowedAt, a, a + Window * TicksPerSec) <= 2 * Limit

\* limit calls were allowed before a window boundary and limit more from
\* the boundary on, all inside one window length
C29_Witness ==
    \E a \in 0..MaxTime :
        /\ AllowedIn(allowedAt, a, a + Window * TicksPerSec) = 2 * Limit
        /\ AllowedIn(allowedAt, a, a + Window * TicksPerSec - 1) = Limit

\* C30: a task that left embedding_status completed had its vector
\* upserted, and a task whose embedding generation or upsert failed left
\* failed with an error message
C30_CompletedMeansUpserted ==
    \A j \in EmbJobs :
        emb.last[j].done =>
            /\ emb.last[j].embedding_status = "completed" =>
                   emb.last[j].genOk /\ emb.last[j].upsert = "ok"
            /\ ~(emb.last[j].genOk /\ emb.last[j].upsert = "ok") =>
                   /\ emb.last[j].embedding_status = "failed"
                   /\ emb.last[j].error_message # "none"

====
